---- MODULE Spec2Model ----
(***************************************************************************)
(* Machine reconciler, VMM manager free-socket pool and machine deletion   *)
(* of the cloud-hypervisor provider.                                       *)
(*                                                                         *)
(* Source: internal/controllers/machine_controller.go (lines 512-1179, the *)
(* reconciler that works on the manager with a socket pool) and the        *)
(* manager itself (unnamed/part_010).                                      *)
(***************************************************************************)
EXTENDS Integers, Sequences, FiniteSets, TLC

(***************************************************************************)
(* Bounds of the model.                                                    *)
(***************************************************************************)
\* machine ids the id generator can hand out (each at most once)
NMachines == 2
\* hypervisor control sockets found in the sockets directory
NSockets == 2
\* reconciler workers (workerSize in Start is 15)
NWorkers == 2
\* calls (store, REST, plugin, filesystem) that may fail in one history
MaxFaults == 1
\* restarts of the provider in one history
MaxRestarts == 1

Machines == { <<"id", i>> : i \in 1..NMachines }
Sockets == { <<"sock", i>> : i \in 1..NSockets }
Workers == 1..NWorkers

\* Spec.ApiSocketPath == nil; ptr.Deref(nil, "") is no key of instances
NoSock == <<"sock", 0>>
\* wid of a worker that holds no id
NoId == <<"id", 0>>

PowerStatePowerOn == "PowerOn"
PowerStatePowerOff == "PowerOff"

VARIABLES
    store,      \* machine store: id -> record, for the ids that are stored
    created,    \* ids the id generator has handed out
    wq,         \* workqueue: [queue, dirty, processing]
    delayed,    \* ids AddRateLimited will Add once their backoff elapsed
    pc,         \* worker -> position in processNextWorkItem/reconcileMachine
    wid,        \* worker -> id it got from the queue
    mach,       \* worker -> its copy of the machine record
    err,        \* worker -> whether the pass returns an error
    vminfo,     \* worker -> VmInfo of the last GetVM of the pass
    calls,      \* worker -> REST requests sent in this pass: <<op, socket>>
    free,       \* Manager.free
    vm,         \* socket -> VM held by the hypervisor behind it
    dirs,       \* machine ids whose working directory exists, and the root disks in them
    volDirs,    \* <<machine, plugin, key>> volume directories on disk
    nicDirs,    \* <<machine, nic name>> NIC directories of the NIC plugin
    qmpNodes,   \* block nodes of the qemu-storage-daemon
    qmpExports, \* block exports of the qemu-storage-daemon
    faults,     \* failures injected so far
    held,       \* worker -> whether it is inside a Manager call, holding idMu
    restarts,   \* how often the provider was started again on its store
    reply,      \* the last response of CreateMachine or ListMachines
    imageCache, \* image ref -> "none", "pulling" or "done" in the OCI image cache
    nicStore,   \* NIC store (r.nics): NIC id -> record, for the NIC records that are stored
    nicCopy,    \* worker -> its copy of a NIC record
    scenario    \* what this history may hold: [ids, reqs, leftover, faults, events]

vars == << store, created, wq, delayed, pc, wid, mach, err, vminfo, calls,
           free, vm, dirs, volDirs, nicDirs, qmpNodes, qmpExports, faults,
           held, restarts, reply, imageCache, nicStore, nicCopy, scenario >>

\* the variables outside the store and the queue that an RPC leaves alone
hostVars == << free, vm, dirs, volDirs, nicDirs, qmpNodes, qmpExports, restarts,
              reply, imageCache, nicStore, nicCopy, scenario >>
workerVars == << pc, wid, err, vminfo, calls >>

(***************************************************************************)
(* Workqueue (k8s.io/client-go/util/workqueue, section 4.2 of the design). *)
(***************************************************************************)
InSeq(x, s) == \E i \in 1..Len(s) : s[i] = x

\* Add(id): dropped when the queue is shutting down or the id is dirty;
\* queued unless it is being processed
QAdd(q, id) ==
    IF q.shuttingDown THEN q
    ELSE IF id \in q.dirty THEN q
    ELSE IF id \in q.processing THEN [q EXCEPT !.dirty = @ \cup {id}]
    ELSE [q EXCEPT !.dirty = @ \cup {id}, !.queue = Append(@, id)]

\* Get(): the head leaves the queue and the dirty set and is in progress
QGet(q) ==
    [ queue |-> Tail(q.queue),
      dirty |-> q.dirty \ {Head(q.queue)},
      processing |-> q.processing \cup {Head(q.queue)},
      shuttingDown |-> q.shuttingDown ]

\* Done(id): no longer in progress; queued again if it was added meanwhile
QDone(q, id) ==
    IF id \in q.dirty
    THEN [q EXCEPT !.processing = @ \ {id}, !.queue = Append(@, id)]
    ELSE [q EXCEPT !.processing = @ \ {id}]

(***************************************************************************)
(* Machine records and the store (provider-utils store, section 4.1).      *)
(***************************************************************************)
MachineFinalizer == "machine"

\* volumes and NICs a CreateMachine request may carry
CephVolume == [ name |-> "v1", kind |-> "ceph", handle |-> "h1", del |-> FALSE ]
LocalVolume == [ name |-> "v1", kind |-> "local", handle |-> "", del |-> FALSE ]
SecondVolume == [ name |-> "v2", kind |-> "local", handle |-> "", del |-> FALSE ]
Nic == [ name |-> "n1", del |-> FALSE ]

PlainRequest == [ power |-> PowerStatePowerOn, vols |-> << >>, nics |-> << >> ]

CreateRequests ==
    { PlainRequest,
      [ power |-> PowerStatePowerOn, vols |-> << CephVolume >>, nics |-> << >> ],
      [ power |-> PowerStatePowerOff, vols |-> << LocalVolume >>, nics |-> << Nic >> ] }

\* a machine with two volumes
TwoVolumesRequest ==
    [ power |-> PowerStatePowerOn, vols |-> << LocalVolume, SecondVolume >>,
      nics |-> << >> ]

\* a machine with a root image and nothing else
ImageRef == "img"
ImageRefs == { ImageRef }
ImageRequest ==
    [ power |-> PowerStatePowerOn, vols |-> << >>, nics |-> << >>, image |-> ImageRef ]

\* a machine with one NIC and nothing else
NicRequest == [ power |-> PowerStatePowerOn, vols |-> << >>, nics |-> << Nic >> ]

\* the histories explored: several machines without volumes and NICs that
\* compete for the sockets, one of which holds a VM left by an earlier run
\* (several machines with every socket free are in NicScenario), one machine
\* with volumes and NICs that also sees detach requests, a hypervisor that
\* loses its VM and a restart of the provider, one machine whose client
\* also sends requests that are not valid, attaches and lists, and one
\* machine with a root image that sees the provider shut down;
\* faults is the number of calls that may fail (a lost VM counts as one)
Scenarios ==
    { [ ids |-> Machines, reqs |-> { PlainRequest }, leftover |-> { << "sock", 1 >> },
        faults |-> MaxFaults, events |-> {}, plugin |-> "isolated" ],
      [ ids |-> { << "id", 1 >> }, reqs |-> CreateRequests, leftover |-> {},
        faults |-> MaxFaults, events |-> { "detach", "vmlost", "restart" }, plugin |-> "isolated" ],
      [ ids |-> { << "id", 1 >> }, reqs |-> { PlainRequest }, leftover |-> {},
        faults |-> MaxFaults - 1, events |-> { "invalid", "list", "attach", "detach" }, plugin |-> "isolated" ],
      [ ids |-> { << "id", 1 >> }, reqs |-> { ImageRequest }, leftover |-> {},
        faults |-> MaxFaults - 1, events |-> { "shutdown" }, plugin |-> "isolated" ] }

\* one machine with two volumes that sees detach requests
TwoVolumesScenario ==
    [ ids |-> { << "id", 1 >> }, reqs |-> { TwoVolumesRequest }, leftover |-> {},
      faults |-> MaxFaults - 1, events |-> { "detach" }, plugin |-> "isolated" ]

\* the histories of one machine
DeviceScenarios == { sc \in Scenarios : sc.events # {} } \cup { TwoVolumesScenario }

\* machines with a NIC, with a root image and with neither side by side, no
\* failing call
NicScenario ==
    [ ids |-> Machines, reqs |-> { PlainRequest, NicRequest, ImageRequest }, leftover |-> {},
      faults |-> 0, events |-> {}, plugin |-> "isolated" ]

\* the same machines on a provider started with the apinet NIC plugin, every
\* remote interface Ready
ApinetScenario == [ NicScenario EXCEPT !.plugin = "apinet" ]

\* machines, with a root image or with a NIC (whose passes fail and wait for
\* their backoff), when the provider is shut down at some point
ShutdownScenario ==
    [ NicScenario EXCEPT !.reqs = { ImageRequest, NicRequest }, !.events = { "shutdown" } ]

\* what of an iri.Machine is there: [machine, spec, metadata] say which
\* pointers are not nil, class is Spec.Class ("" without a spec)
MachineClass == "sample-machine-class"
MachineClassRegistry == { MachineClass }
ValidShape == [ machine |-> TRUE, spec |-> TRUE, metadata |-> TRUE, class |-> MachineClass ]
IriMachines ==
    { ValidShape,
      [ machine |-> FALSE, spec |-> FALSE, metadata |-> FALSE, class |-> "" ],
      [ machine |-> TRUE, spec |-> FALSE, metadata |-> TRUE, class |-> "" ],
      [ machine |-> TRUE, spec |-> FALSE, metadata |-> FALSE, class |-> "" ],
      [ machine |-> TRUE, spec |-> TRUE, metadata |-> FALSE, class |-> MachineClass ],
      [ machine |-> TRUE, spec |-> TRUE, metadata |-> TRUE, class |-> "unknown" ] }

NoReply == [ op |-> "none", request |-> ValidShape, err |-> "", ids |-> {}, state |-> "" ]

\* the names of the volumes and NICs of these requests
VolumeNames == { CephVolume.name, LocalVolume.name, SecondVolume.name }
NicRequestNames == { Nic.name }

NoMachine ==
    [ id |-> NoId, del |-> FALSE, fin |-> {}, sock |-> NoSock,
      power |-> PowerStatePowerOn, vols |-> << >>, nics |-> << >>,
      vstat |-> << >>, nstat |-> << >>, state |-> "Pending", image |-> "",
      latest |-> FALSE ]

\* a NIC record: id, deletion timestamp, finalizers, Status.State; NoNic where
\* a worker holds none
NoNicId == << "nic", NoId, "" >>
NoNic == [ id |-> NoNicId, del |-> FALSE, fin |-> {}, state |-> "Pending", latest |-> FALSE ]

NoVm == [ created |-> FALSE, running |-> FALSE, uuid |-> NoId, disks |-> {}, devs |-> {} ]

Stored(m) == m \in DOMAIN store

\* the record without the marker of the worker's copy
Rec(m) == [ f \in (DOMAIN m) \ {"latest"} |-> m[f] ]

\* copies of id held by workers other than w no longer carry the latest version
Outdate(id, w) ==
    [ x \in Workers |->
        IF x # w /\ wid[x] = id /\ pc[x] \notin { "idle", "exited" }
        THEN [ mach[x] EXCEPT !.latest = FALSE ]
        ELSE mach[x] ]

StorePut(m) == [ x \in DOMAIN store \cup {m.id} |-> IF x = m.id THEN Rec(m) ELSE store[x] ]
StoreRemove(id) == [ x \in DOMAIN store \ {id} |-> store[x] ]

\* Update: ErrNotFound for a missing record, ErrResourceVersionNotLatest for
\* a stale copy; a record with a deletion timestamp and no finalizer is removed
UpdateResult(m) ==
    IF ~Stored(m.id) THEN "ErrNotFound"
    ELSE IF ~m.latest THEN "ErrResourceVersionNotLatest"
    ELSE "ok"

StoreAfterUpdate(m) ==
    IF m.del /\ m.fin = {} THEN StoreRemove(m.id) ELSE StorePut(m)

\* Delete: removes a record without finalizers, sets the deletion timestamp
\* on one that has finalizers
StoreAfterDelete(id) ==
    IF store[id].fin = {} THEN StoreRemove(id)
    ELSE [ store EXCEPT ![id].del = TRUE ]

(***************************************************************************)
(* VMM manager.                                                            *)
(***************************************************************************)
\* Manager.instances: one REST client per socket of the sockets directory
instances == Sockets

\* (a variant that reserves nothing)
NewManagerFreeNoReserved(vms, reserved) == { s \in instances : ~vms[s].created }

\* NewManager: a socket is free if GetVM says VmNotCreated and it is not reserved
NewManagerFree(vms, reserved) ==
    { s \in instances : ~vms[s].created /\ s \notin reserved }

\* the sockets machine records reference (Run: socketsInUse)
SocketsInUse == { store[m].sock : m \in DOMAIN store } \ {NoSock}

\* getNicID: the device id of a NIC in the hypervisor
getNicID(nicName) == << "NIC", 0, nicName >>

\* getNicName: the NIC name of a device id, "" (nil) for other devices
getNicName(deviceID) == IF deviceID[1] = "NIC" THEN deviceID[3] ELSE ""

\* hypervisor behind a control socket: which requests it answers with 2xx
HvCreateOk(v) == ~v.created
HvBootOk(v) == v.created /\ ~v.running
HvShutdownOk(v) == v.created /\ v.running
HvAddOk(v, deviceID) == v.created /\ deviceID \notin (v.disks \cup v.devs)
HvRemoveOk(v, deviceID) == v.created /\ deviceID \in (v.disks \cup v.devs)

\* (a variant that takes every answer of the hypervisor for "not created")
GetVMResultNotCreated(instanceID) ==
    IF instanceID \notin instances THEN "ErrNotFound" ELSE "ErrVmNotCreated"

\* Manager.GetVM
GetVMResult(instanceID) ==
    IF instanceID \notin instances THEN "ErrNotFound"
    ELSE IF ~vm[instanceID].created THEN "ErrVmNotCreated"
    ELSE "ok"

\* Manager.CreateVM: disks are the Prepared volumes, devices are the NICs,
\* every NIC status has to be Prepared
CreateVMDisks(m) ==
    { m.vstat[i].handle : i \in { j \in 1..Len(m.vstat) : m.vstat[j].state = "Prepared" } }

CreateVMDevs(m) == { getNicID(m.nstat[i].name) : i \in 1..Len(m.nstat) }

\* (a variant that creates the VM whatever the state of the NICs)
CreateVMResultAnyNic(m) ==
    IF m.sock \notin instances THEN "ErrNotFound"
    ELSE IF HvCreateOk(vm[m.sock]) THEN "ok"
    ELSE "ProtocolError"

CreateVMResult(m) ==
    IF m.sock \notin instances THEN "ErrNotFound"
    ELSE IF \E i \in 1..Len(m.nstat) : m.nstat[i].state # "Prepared" THEN "NicNotAttached"
    ELSE IF HvCreateOk(vm[m.sock]) THEN "ok"
    ELSE "ProtocolError"

CreatedVm(m) ==
    [ created |-> TRUE, running |-> FALSE, uuid |-> m.id,
      disks |-> CreateVMDisks(m), devs |-> CreateVMDevs(m) ]

\* Manager.PowerOn, PowerOff, Delete
PowerOnResult(instanceID) ==
    IF instanceID \notin instances THEN "ErrNotFound"
    ELSE IF HvBootOk(vm[instanceID]) THEN "ok"
    ELSE "ProtocolError"

PowerOffResult(instanceID) ==
    IF instanceID \notin instances THEN "ErrNotFound"
    ELSE IF HvShutdownOk(vm[instanceID]) THEN "ok"
    ELSE "ProtocolError"

DeleteResult(instanceID) ==
    IF instanceID \notin instances THEN "ErrNotFound" ELSE "ok"

(***************************************************************************)
(* Volume and NIC plugins.                                                 *)
(***************************************************************************)
NoHandle == << "none", 0, "" >>

\* localdisk generateWWN(machineID, name); ceph: the connection handle
VolumeHandle(id, v) ==
    IF v.kind = "ceph" THEN << "conn", 0, v.handle >> ELSE << "wwn", id[2], v.name >>

\* what Apply creates: ceph keys directory, node and export by the handle,
\* the local disk plugin keys its directory by the volume name
ApplyKey(v) == IF v.kind = "ceph" THEN v.handle ELSE v.name

VolumeApply(id, v, h) ==
    [ dirs |-> h.dirs \cup { << id, v.kind, ApplyKey(v) >> },
      nodes |-> IF v.kind = "ceph" THEN h.nodes \cup { ApplyKey(v) } ELSE h.nodes,
      exports |-> IF v.kind = "ceph" THEN h.exports \cup { ApplyKey(v) } ELSE h.exports ]

\* what Delete(name, machineID) removes: everything is keyed by the name
VolumeDelete(id, v, h) ==
    [ dirs |-> h.dirs \ { << id, v.kind, v.name >> },
      nodes |-> IF v.kind = "ceph" THEN h.nodes \ { v.name } ELSE h.nodes,
      exports |-> IF v.kind = "ceph" THEN h.exports \ { v.name } ELSE h.exports ]

\* localdisk Apply calls raw.Create only if the disk file does not exist
\* (the file lives and dies with the volume directory)
RawCreateCalled(id, v, h) == v.kind = "local" /\ << id, v.kind, ApplyKey(v) >> \notin h.dirs

AppliedVolume(id, v) ==
    [ name |-> v.name, type |-> IF v.kind = "ceph" THEN "socket" ELSE "file",
      handle |-> VolumeHandle(id, v), state |-> "Prepared" ]

\* isolated NIC plugin: Apply makes the NIC directory and reports Pending
\* (without a name), Delete removes the directory
IsolatedApply(id, n) == [ name |-> "", state |-> "Pending" ]

\* apinet NIC plugin: Apply makes the NIC directory, applies the remote
\* interface and, once that is Ready with a PCI address, reports Attached
\* with handle and path (without a name)
ApinetApply(id, n) == [ name |-> "", state |-> "Attached" ]

\* Apply of the NIC plugin the provider was started with
AppliedNic(id, n) ==
    IF scenario.plugin = "apinet" THEN ApinetApply(id, n) ELSE IsolatedApply(id, n)

getVolumeStatus(volumes, name) ==
    IF \E i \in 1..Len(volumes) : volumes[i].name = name
    THEN volumes[CHOOSE i \in 1..Len(volumes) :
                    /\ volumes[i].name = name
                    /\ \A j \in 1..(i - 1) : volumes[j].name # name]
    ELSE [ name |-> name, type |-> "", handle |-> NoHandle, state |-> "Pending" ]

getNICStatus(nics, name) ==
    IF \E i \in 1..Len(nics) : nics[i].name = name
    THEN nics[CHOOSE i \in 1..Len(nics) :
                 /\ nics[i].name = name
                 /\ \A j \in 1..(i - 1) : nics[j].name # name]
    ELSE [ name |-> name, state |-> "Pending" ]

HostVolumes == [ dirs |-> volDirs, nodes |-> qmpNodes, exports |-> qmpExports ]

(***************************************************************************)
(* reconcileVolumes / reconcileNics: plugin Delete for the entries with a  *)
(* deletion timestamp that are not Attached (they leave spec and status),  *)
(* plugin Apply for the others; an Attached status stays Attached.         *)
(***************************************************************************)
VolumeGone(m, v) == v.del /\ getVolumeStatus(m.vstat, v.name).state # "Attached"
NicGone(m, n) == n.del /\ getNICStatus(m.nstat, n.name).state # "Attached"

\* (a variant that drops every volume with a deletion timestamp)
ReconcileVolumesSpecDropDeleted(m) == SelectSeq(m.vols, LAMBDA v : ~v.del)

ReconcileVolumesSpec(m) == SelectSeq(m.vols, LAMBDA v : ~VolumeGone(m, v))

\* (a variant that takes the state the plugin reports)
ReconcileVolumesStatusFromApply(m) ==
    LET kept == ReconcileVolumesSpec(m)
    IN [ i \in 1..Len(kept) |-> AppliedVolume(m.id, kept[i]) ]

ReconcileVolumesStatus(m) ==
    LET kept == ReconcileVolumesSpec(m)
    IN [ i \in 1..Len(kept) |->
           IF getVolumeStatus(m.vstat, kept[i].name).state = "Attached"
           THEN [ AppliedVolume(m.id, kept[i]) EXCEPT !.state = "Attached" ]
           ELSE AppliedVolume(m.id, kept[i]) ]

\* the plugins' files, block nodes and exports after the first n volumes
RECURSIVE ReconcileVolumesHost(_, _, _)
ReconcileVolumesHost(m, n, h) ==
    IF n = 0 THEN h
    ELSE LET prev == ReconcileVolumesHost(m, n - 1, h)
         IN IF VolumeGone(m, m.vols[n])
            THEN VolumeDelete(m.id, m.vols[n], prev)
            ELSE VolumeApply(m.id, m.vols[n], prev)

ReconcileNicsSpec(m) == SelectSeq(m.nics, LAMBDA n : ~NicGone(m, n))

ReconcileNicsStatus(m) ==
    LET kept == ReconcileNicsSpec(m)
    IN [ i \in 1..Len(kept) |->
           IF getNICStatus(m.nstat, kept[i].name).state = "Attached"
           THEN [ AppliedNic(m.id, kept[i]) EXCEPT !.state = "Attached" ]
           ELSE AppliedNic(m.id, kept[i]) ]

\* the NIC directories after the first n NICs
RECURSIVE ReconcileNicsHost(_, _, _)
ReconcileNicsHost(m, n, d) ==
    IF n = 0 THEN d
    ELSE LET prev == ReconcileNicsHost(m, n - 1, d)
         IN IF NicGone(m, m.nics[n])
            THEN prev \ { << m.id, m.nics[n].name >> }
            ELSE prev \cup { << m.id, m.nics[n].name >> }

(***************************************************************************)
(* attachDetachDisks / attachDetachNICs against the device list of the     *)
(* GetVM response (cur). acc: v the VM of the socket, stat the new status  *)
(* list, ok whether no call failed, sent whether a request was sent,       *)
(* removed whether a NIC was removed. failAt: the entry whose request      *)
(* fails in transport (0: none).                                           *)
(***************************************************************************)
RECURSIVE AttachDetachDisksLoop(_, _, _, _, _)
AttachDetachDisksLoop(m, cur, i, failAt, acc) ==
    IF i > Len(m.vols) \/ ~acc.ok THEN acc
    ELSE LET vol == m.vols[i]
             status == getVolumeStatus(m.vstat, vol.name)
             failed == [ acc EXCEPT !.ok = FALSE, !.sent = (m.sock \in instances) ]
         IN IF ~vol.del
            THEN IF status.handle \notin cur
                 THEN IF status.state # "Prepared"
                      THEN AttachDetachDisksLoop(m, cur, i + 1, failAt, acc)
                      ELSE IF \/ m.sock \notin instances
                              \/ i = failAt
                              \/ ~HvAddOk(acc.v, status.handle)
                           THEN failed
                           ELSE AttachDetachDisksLoop(m, cur, i + 1, failAt,
                                    [ acc EXCEPT !.v.disks = @ \cup { status.handle },
                                                 !.sent = TRUE,
                                                 !.stat = Append(@, [ status EXCEPT !.state = "Attached" ]) ])
                 ELSE AttachDetachDisksLoop(m, cur, i + 1, failAt,
                          [ acc EXCEPT !.stat = Append(@, [ status EXCEPT !.state = "Attached" ]) ])
            ELSE IF status.handle \in cur
                 THEN IF \/ m.sock \notin instances
                         \/ i = failAt
                         \/ ~HvRemoveOk(acc.v, status.handle)
                      THEN failed
                      ELSE AttachDetachDisksLoop(m, cur, i + 1, failAt,
                               [ acc EXCEPT !.v.disks = @ \ { status.handle },
                                            !.sent = TRUE,
                                            !.stat = Append(@, status) ])
                 ELSE AttachDetachDisksLoop(m, cur, i + 1, failAt,
                          [ acc EXCEPT !.stat = Append(@, [ status EXCEPT !.state = "Prepared" ]) ])

RECURSIVE AttachDetachNICsLoop(_, _, _, _, _)
AttachDetachNICsLoop(m, cur, i, failAt, acc) ==
    IF i > Len(m.nics) \/ ~acc.ok THEN acc
    ELSE LET nic == m.nics[i]
             status == getNICStatus(m.nstat, nic.name)
             failed == [ acc EXCEPT !.ok = FALSE, !.sent = (m.sock \in instances) ]
         IN IF ~nic.del
            THEN IF status.name \notin cur
                 THEN IF status.state # "Prepared"
                      THEN AttachDetachNICsLoop(m, cur, i + 1, failAt, acc)
                      ELSE IF \/ m.sock \notin instances
                              \/ i = failAt
                              \/ ~HvAddOk(acc.v, getNicID(status.name))
                           THEN failed
                           ELSE AttachDetachNICsLoop(m, cur, i + 1, failAt,
                                    [ acc EXCEPT !.v.devs = @ \cup { getNicID(status.name) },
                                                 !.sent = TRUE,
                                                 !.stat = Append(@, [ status EXCEPT !.state = "Attached" ]) ])
                 ELSE AttachDetachNICsLoop(m, cur, i + 1, failAt,
                          [ acc EXCEPT !.stat = Append(@, [ status EXCEPT !.state = "Attached" ]) ])
            ELSE IF status.name \in cur
                 THEN IF \/ m.sock \notin instances
                         \/ i = failAt
                         \/ ~HvRemoveOk(acc.v, getNicID(nic.name))
                      THEN failed
                      ELSE AttachDetachNICsLoop(m, cur, i + 1, failAt,
                               [ acc EXCEPT !.v.devs = @ \ { getNicID(nic.name) },
                                            !.sent = TRUE,
                                            !.removed = TRUE,
                                            !.stat = Append(@, status) ])
                 ELSE AttachDetachNICsLoop(m, cur, i + 1, failAt,
                          [ acc EXCEPT !.stat = Append(@, [ status EXCEPT !.state = "Prepared" ]) ])

LoopStart(v) == [ v |-> v, stat |-> << >>, ok |-> TRUE, sent |-> FALSE, removed |-> FALSE ]

\* the NIC names among the devices of a VM
NicNames(v) == { getNicName(d) : d \in v.devs } \ { "" }

(***************************************************************************)
(* deleteMachine                                                           *)
(***************************************************************************)
\* the instance ids deleteMachine hands to Manager.PowerOff and Manager.Delete
PowerOffTarget(m) == m.id
DeleteTarget(m) == m.id

\* deleteMachine goes on after PowerOff / Delete only if the call returned
\* ErrNotFound: !errors.Is(err, vmm.ErrNotFound) returns, also for err == nil
DeleteProceeds(result) == result = "ErrNotFound"

\* plugin Delete of the first n volumes of the spec
RECURSIVE DeleteVolumesHost(_, _, _)
DeleteVolumesHost(m, n, h) ==
    IF n = 0 THEN h
    ELSE VolumeDelete(m.id, m.vols[n], DeleteVolumesHost(m, n - 1, h))

\* plugin Delete of the first n NICs of the spec
DeleteNicsHost(m, n, d) == d \ { << m.id, m.nics[i].name >> : i \in 1..n }

\* os.RemoveAll(MachineDir(id)): volume and NIC directories live below it
RemoveAllVolDirs(id, d) == { x \in d : x[1] # id }
RemoveAllNicDirs(id, d) == { x \in d : x[1] # id }

(***************************************************************************)
(* Initial state: the provider has started on an empty store; a hypervisor *)
(* may hold a VM that an earlier run left behind.                          *)
(***************************************************************************)
LeftoverVm == [ created |-> TRUE, running |-> FALSE, uuid |-> NoId, disks |-> {}, devs |-> {} ]

\* the state after construction in the history sc
InitOf(sc) ==
    /\ store = << >>
    /\ created = {}
    /\ wq = [ queue |-> << >>, dirty |-> {}, processing |-> {}, shuttingDown |-> FALSE ]
    /\ delayed = {}
    /\ pc = [ w \in Workers |-> "idle" ]
    /\ wid = [ w \in Workers |-> NoId ]
    /\ mach = [ w \in Workers |-> NoMachine ]
    /\ err = [ w \in Workers |-> FALSE ]
    /\ vminfo = [ w \in Workers |-> NoVm ]
    /\ calls = [ w \in Workers |-> {} ]
    /\ scenario = sc
    /\ vm = [ s \in Sockets |-> IF s \in scenario.leftover THEN LeftoverVm ELSE NoVm ]
    /\ free = NewManagerFree(vm, {})
    /\ dirs = {}
    /\ volDirs = {}
    /\ nicDirs = {}
    /\ qmpNodes = {}
    /\ qmpExports = {}
    /\ faults = 0
    /\ held = [ w \in Workers |-> FALSE ]
    /\ restarts = 0
    /\ reply = NoReply
    /\ imageCache = [ r \in ImageRefs |-> "none" ]
    /\ nicStore = << >>
    /\ nicCopy = [ w \in Workers |-> NoNic ]

Init == \E sc \in Scenarios : InitOf(sc)

(***************************************************************************)
(* RPC server and event source.                                            *)
(***************************************************************************)
\* one more call fails (or one more event of the environment happens); once
\* the context is cancelled any call may fail
Fault ==
    \/ faults < scenario.faults /\ faults' = faults + 1
    \/ wq.shuttingDown /\ UNCHANGED faults

\* Spec.Image of the record: the image of the request, if it names one
ImageOf(req) == IF "image" \in DOMAIN req THEN req.image ELSE ""

NewMachine(id, req) ==
    [ id |-> id, del |-> FALSE, fin |-> {}, sock |-> NoSock, power |-> req.power,
      vols |-> req.vols, nics |-> req.nics, vstat |-> << >>, nstat |-> << >>,
      state |-> "Pending", image |-> ImageOf(req), latest |-> TRUE ]

\* createMachineFromIRIMachine: the checks before anything is built
\* (a variant that does not look at the metadata)
CreateMachineErrorNoMetadataCheck(iriMachine) ==
    IF ~iriMachine.machine THEN "iri machine is nil"
    ELSE IF ~iriMachine.spec THEN "iri machine spec is nil"
    ELSE IF iriMachine.class \notin MachineClassRegistry THEN "machine class not supported"
    ELSE ""

CreateMachineError(iriMachine) ==
    IF ~iriMachine.machine THEN "iri machine is nil"
    ELSE IF ~iriMachine.spec THEN "iri machine spec is nil"
    ELSE IF ~iriMachine.metadata THEN "iri machine metadata is nil"
    ELSE IF iriMachine.class \notin MachineClassRegistry THEN "machine class not supported"
    ELSE ""

\* the requests a client sends in this history
IriMachinesSent == IF "invalid" \in scenario.events THEN IriMachines ELSE { ValidShape }

\* CreateMachine: an error for a request that is not valid; else a record with
\* a fresh id (ids named in the order they are handed out) and state Pending,
\* whose store event reaches queue.Add
CreateMachine(id, req, iriMachine) ==
    /\ UNCHANGED held
    /\ iriMachine \in IriMachinesSent
    /\ IF CreateMachineError(iriMachine) # ""
       THEN /\ id = << "id", 1 >> /\ req = PlainRequest   \* neither is looked at
            /\ reply' = [ op |-> "CreateMachine", request |-> iriMachine,
                          err |-> CreateMachineError(iriMachine), ids |-> {}, state |-> "" ]
            /\ UNCHANGED << store, created, wq >>
       ELSE /\ id \in scenario.ids
            /\ req \in scenario.reqs
            /\ id \notin created
            /\ \A x \in scenario.ids : x[2] < id[2] => x \in created
            /\ created' = created \cup {id}
            /\ store' = StorePut(NewMachine(id, req))
            /\ wq' = QAdd(wq, id)
            /\ reply' = [ op |-> "CreateMachine", request |-> iriMachine, err |-> "",
                          ids |-> {id}, state |-> store'[id].state ]
    /\ UNCHANGED << delayed, mach, faults >>
    /\ UNCHANGED workerVars
    /\ UNCHANGED << free, vm, dirs, volDirs, nicDirs, qmpNodes, qmpExports, restarts,
                    imageCache, nicStore, nicCopy, scenario >>

\* ListMachines with an id filter: the stored machines with that id
ListMachines(id) ==
    /\ UNCHANGED held
    /\ "list" \in scenario.events
    /\ reply' = [ op |-> "ListMachines", request |-> [ id |-> id ], err |-> "",
                  ids |-> { x \in DOMAIN store : x = id }, state |-> "" ]
    /\ UNCHANGED << store, created, wq, delayed, mach, faults >>
    /\ UNCHANGED workerVars
    /\ UNCHANGED << free, vm, dirs, volDirs, nicDirs, qmpNodes, qmpExports, restarts,
                    imageCache, nicStore, nicCopy, scenario >>

\* DeleteMachine: store Delete; the store event reaches queue.Add
DeleteMachine(id) ==
    /\ UNCHANGED held
    /\ Stored(id)
    /\ ~store[id].del
    /\ store' = StoreAfterDelete(id)
    /\ mach' = Outdate(id, 0)
    /\ wq' = QAdd(wq, id)
    /\ UNCHANGED << scenario, imageCache, nicStore, nicCopy, restarts, reply, created, delayed, faults >>
    /\ UNCHANGED workerVars
    /\ UNCHANGED hostVars

\* (a variant that marks every entry)
MarkDeletedAll(entries, name) ==
    [ i \in 1..Len(entries) |-> [ entries[i] EXCEPT !.del = TRUE ] ]

\* the deletion timestamp on every entry called name
MarkDeleted(entries, name) ==
    [ i \in 1..Len(entries) |->
        IF entries[i].name = name THEN [ entries[i] EXCEPT !.del = TRUE ] ELSE entries[i] ]

HasEntry(entries, name) == \E i \in 1..Len(entries) : entries[i].name = name /\ ~entries[i].del

HasName(entries, name) == \E i \in 1..Len(entries) : entries[i].name = name


DetachReply(op, id, name, e) ==
    [ op |-> op, request |-> [ id |-> id, name |-> name ], err |-> e, ids |-> {},
      state |-> "" ]

\* AttachVolume answers with an empty response: nothing is read or stored
AttachVolume(id, name) ==
    /\ "attach" \in scenario.events
    /\ reply' = DetachReply("AttachVolume", id, name, "")
    /\ UNCHANGED << store, created, wq, delayed, mach, faults, held >>
    /\ UNCHANGED workerVars
    /\ UNCHANGED << free, vm, dirs, volDirs, nicDirs, qmpNodes, qmpExports, restarts, imageCache, nicStore, nicCopy, scenario >>

\* DetachVolume: store Get, deletion timestamp on the volume, store Update
\* (the store event reaches queue.Add); an error without a volume of that name
DetachVolume(id, name) ==
    /\ UNCHANGED held
    /\ "detach" \in scenario.events
    /\ Stored(id)
    /\ IF HasName(store[id].vols, name)
       THEN /\ HasEntry(store[id].vols, name)
            /\ store' = [ store EXCEPT ![id].vols = MarkDeleted(@, name) ]
            /\ mach' = Outdate(id, 0)
            /\ wq' = QAdd(wq, id)
            /\ reply' = DetachReply("DetachVolume", id, name, "")
       ELSE /\ "invalid" \in scenario.events
            /\ reply' = DetachReply("DetachVolume", id, name, "volume not found")
            /\ UNCHANGED << store, mach, wq >>
    /\ UNCHANGED << created, delayed, faults >>
    /\ UNCHANGED workerVars
    /\ UNCHANGED << free, vm, dirs, volDirs, nicDirs, qmpNodes, qmpExports, restarts,
                    imageCache, nicStore, nicCopy, scenario >>

\* DetachNetworkInterface: the same for a NIC
DetachNetworkInterface(id, name) ==
    /\ UNCHANGED held
    /\ "detach" \in scenario.events
    /\ Stored(id)
    /\ IF HasName(store[id].nics, name)
       THEN /\ HasEntry(store[id].nics, name)
            /\ store' = [ store EXCEPT ![id].nics = MarkDeleted(@, name) ]
            /\ mach' = Outdate(id, 0)
            /\ wq' = QAdd(wq, id)
            /\ reply' = DetachReply("DetachNetworkInterface", id, name, "")
       ELSE /\ "invalid" \in scenario.events
            /\ reply' = DetachReply("DetachNetworkInterface", id, name, "nic not found")
            /\ UNCHANGED << store, mach, wq >>
    /\ UNCHANGED << created, delayed, faults >>
    /\ UNCHANGED workerVars
    /\ UNCHANGED << free, vm, dirs, volDirs, nicDirs, qmpNodes, qmpExports, restarts,
                    imageCache, nicStore, nicCopy, scenario >>

\* the hypervisor process behind a socket restarts: it holds no VM any more
VmLost(s) ==
    /\ UNCHANGED held
    /\ "vmlost" \in scenario.events
    /\ vm[s].created
    /\ Fault
    /\ vm' = [ vm EXCEPT ![s] = NoVm ]
    /\ UNCHANGED << store, created, wq, delayed, mach >>
    /\ UNCHANGED workerVars
    /\ UNCHANGED << free, dirs, volDirs, nicDirs, qmpNodes, qmpExports, restarts,
                    reply, imageCache, nicStore, nicCopy, scenario >>

\* the provider restarts on its store: the workers and the queue start anew,
\* NewManager builds the free set with the stored sockets reserved
Restart ==
    /\ "restart" \in scenario.events
    /\ DOMAIN store # {}
    /\ restarts < MaxRestarts
    /\ restarts' = restarts + 1
    /\ wq' = [ queue |-> << >>, dirty |-> {}, processing |-> {}, shuttingDown |-> FALSE ]
    /\ delayed' = {}
    /\ pc' = [ w \in Workers |-> "idle" ]
    /\ wid' = [ w \in Workers |-> NoId ]
    /\ mach' = [ w \in Workers |-> NoMachine ]
    /\ err' = [ w \in Workers |-> FALSE ]
    /\ vminfo' = [ w \in Workers |-> NoVm ]
    /\ calls' = [ w \in Workers |-> {} ]
    /\ held' = [ w \in Workers |-> FALSE ]
    /\ free' = NewManagerFree(vm, SocketsInUse)
    /\ UNCHANGED << store, created, vm, dirs, volDirs, nicDirs, qmpNodes, qmpExports,
                    faults, reply, scenario >>
    /\ imageCache' = [ r \in ImageRefs |-> IF imageCache[r] = "done" THEN "done" ELSE "none" ]
    /\ UNCHANGED << nicStore, nicCopy >>

\* the event source relists: an event for a stored machine
Resync(id) ==
    /\ UNCHANGED held
    /\ Stored(id)
    /\ wq' = QAdd(wq, id)
    /\ wq' # wq
    /\ UNCHANGED << scenario, imageCache, nicStore, nicCopy, restarts, reply, store, created, delayed, mach, faults >>
    /\ UNCHANGED workerVars
    /\ UNCHANGED hostVars

\* the backoff of AddRateLimited elapsed
DelayedAdd(id) ==
    /\ UNCHANGED held
    /\ id \in delayed
    /\ delayed' = delayed \ {id}
    /\ wq' = QAdd(wq, id)
    /\ UNCHANGED << scenario, imageCache, nicStore, nicCopy, restarts, reply, store, created, mach, faults >>
    /\ UNCHANGED workerVars
    /\ UNCHANGED hostVars

(***************************************************************************)
(* processNextWorkItem                                                     *)
(***************************************************************************)
Goto(w, p) == pc' = [ pc EXCEPT ![w] = p ] /\ UNCHANGED err
Return(w, e) == pc' = [ pc EXCEPT ![w] = "done" ] /\ err' = [ err EXCEPT ![w] = e ]
Sent(w, op, s) == calls' = [ calls EXCEPT ![w] = @ \cup { << op, s >> } ]

\* a processNextWorkItem that calls Done right after Get instead of deferring it
QueueAfterGetDoneAtOnce(q) == QDone(QGet(q), Head(q.queue))

\* the queue after Get: Done is deferred to the end of the pass
QueueAfterGet(q) == QGet(q)

\* queue.Get by an idle worker; the workers run the same loop, so the idle
\* worker with the lowest number stands for whichever of them gets the id
ProcessGet(w) ==
    /\ UNCHANGED held
    /\ pc[w] = "idle"
    /\ \A x \in Workers : x < w => pc[x] # "idle"
    /\ wq.queue # << >>
    /\ wid' = [ wid EXCEPT ![w] = Head(wq.queue) ]
    /\ wq' = QueueAfterGet(wq)
    /\ pc' = [ pc EXCEPT ![w] = "fetch" ]
    /\ UNCHANGED << scenario, imageCache, nicStore, nicCopy, restarts, reply, store, created, delayed, mach, err, vminfo, calls, faults >>
    /\ UNCHANGED hostVars

\* (a variant that forgets the id whatever the pass returned)
AfterPassForget(d, id, failed, q) == d

\* the ids waiting for their backoff after a pass of id: AddRateLimited(id)
\* on error (dropped by a queue that is shutting down), Forget(id) otherwise
AfterPass(d, id, failed, q) == IF failed /\ ~q.shuttingDown THEN d \cup { id } ELSE d

\* reconcileMachine returned: AddRateLimited on error, Forget otherwise,
\* then the deferred Done
ProcessDone(w) ==
    /\ UNCHANGED held
    /\ pc[w] = "done"
    /\ delayed' = AfterPass(delayed, wid[w], err[w], wq)
    /\ wq' = QDone(wq, wid[w])
    /\ pc' = [ pc EXCEPT ![w] = "idle" ]
    /\ wid' = [ wid EXCEPT ![w] = NoId ]
    /\ mach' = [ mach EXCEPT ![w] = NoMachine ]
    /\ err' = [ err EXCEPT ![w] = FALSE ]
    /\ vminfo' = [ vminfo EXCEPT ![w] = NoVm ]
    /\ calls' = [ calls EXCEPT ![w] = {} ]
    /\ UNCHANGED << scenario, imageCache, nicStore, nicCopy, restarts, reply, store, created, faults >>
    /\ UNCHANGED hostVars

\* the ids of those machines of a list whose Spec.Image is ref, added one by one
RECURSIVE AddAll(_, _)
AddAll(q, ids) ==
    IF ids = {} THEN q
    ELSE LET id == CHOOSE x \in ids : \A y \in ids : x[2] <= y[2]
         IN AddAll(QAdd(q, id), ids \ { id })

WithImage(ref) == { id \in DOMAIN store : store[id].image = ref }

\* (a listener that adds only the first machine with the image)
PullDoneQueueFirstOnly(q, ref) ==
    IF WithImage(ref) = {} THEN q
    ELSE QAdd(q, CHOOSE x \in WithImage(ref) : \A y \in WithImage(ref) : x[2] <= y[2])

\* HandlePullDoneFunc: queue.Add of every stored machine with that image
PullDoneQueue(q, ref) == AddAll(q, WithImage(ref))

\* the image cache finished a pull and tells its listeners
PullDone(ref) ==
    /\ imageCache[ref] = "pulling"
    /\ imageCache' = [ imageCache EXCEPT ![ref] = "done" ]
    /\ wq' = PullDoneQueue(wq, ref)
    /\ UNCHANGED << nicStore, nicCopy >>
    /\ UNCHANGED << store, created, delayed, mach, faults, held >>
    /\ UNCHANGED workerVars
    /\ UNCHANGED << free, vm, dirs, volDirs, nicDirs, qmpNodes, qmpExports, restarts, reply, scenario >>

\* the context is cancelled: the goroutine of Start that waits for it shuts
\* the queue down
Shutdown ==
    /\ "shutdown" \in scenario.events
    /\ ~wq.shuttingDown
    /\ wq' = [ wq EXCEPT !.shuttingDown = TRUE ]
    /\ UNCHANGED << store, created, delayed, mach, faults, held >>
    /\ UNCHANGED workerVars
    /\ UNCHANGED hostVars

\* (a variant in which the worker goes back to Get when Get reports shutdown)
WorkerStaysInLoop(w) ==
    /\ pc[w] = "idle"
    /\ wq.shuttingDown
    /\ wq.queue = << >>
    /\ UNCHANGED vars

\* queue.Get reports shutdown once the queue is shut down and drained:
\* processNextWorkItem returns false and the worker leaves its loop
WorkerExit(w) ==
    /\ pc[w] = "idle"
    /\ wq.shuttingDown
    /\ wq.queue = << >>
    /\ pc' = [ pc EXCEPT ![w] = "exited" ]
    /\ UNCHANGED << store, created, wq, delayed, wid, mach, err, vminfo, calls, faults, held >>
    /\ UNCHANGED hostVars

\* wg.Wait is over: Start returns
StartReturned == \A w \in Workers : pc[w] = "exited"

(***************************************************************************)
(* reconcileMachine                                                        *)
(***************************************************************************)
Copy(id) == [ f \in DOMAIN store[id] \cup {"latest"} |->
                IF f = "latest" THEN TRUE ELSE store[id][f] ]

\* where the pass goes on after reconcileImage
AfterImage(m) == IF m.sock = NoSock THEN "getsock" ELSE "ping"

\* (a variant that never asks for the finalizer)
NeedsFinalizerNever(m) == FALSE

\* whether the pass has to add MachineFinalizer first
NeedsFinalizer(m) == MachineFinalizer \notin m.fin

\* machines.Get, the branch on deletion timestamp and finalizer,
\* MakeMachineDirs and reconcileImage (no image: nothing to fetch)
Fetch(w) ==
    /\ UNCHANGED held
    /\ pc[w] = "fetch"
    /\ IF ~Stored(wid[w])
       THEN /\ Return(w, FALSE)
            /\ UNCHANGED << mach, dirs >>
       ELSE /\ mach' = [ mach EXCEPT ![w] = Copy(wid[w]) ]
            /\ IF store[wid[w]].del
               THEN Goto(w, "del_state") /\ UNCHANGED dirs
               ELSE IF NeedsFinalizer(store[wid[w]])
               THEN Goto(w, "finalizer") /\ UNCHANGED dirs
               ELSE /\ dirs' = dirs \cup { wid[w] }
                    /\ IF store[wid[w]].image # ""
                       THEN Goto(w, "image")
                       ELSE Goto(w, AfterImage(store[wid[w]]))
    /\ UNCHANGED << scenario, imageCache, nicStore, nicCopy, restarts, reply, store, created, wq, delayed, wid, vminfo, calls, faults >>
    /\ UNCHANGED << free, vm, volDirs, nicDirs, qmpNodes, qmpExports >>

\* a store Update by worker w: on success the record is written (or removed),
\* the event reaches queue.Add and the pass goes on at next
\* the root disk of a machine in its directory
RootFsFile(id) == << "rootfs", id[2] >>

\* imageCache.Get: the image, or ErrImagePulling while it is not there
ImageCacheGet(c, image) == IF c[image] = "done" THEN "ok" ELSE "ErrImagePulling"

\* reconcileImage for a machine with an image: the pass ends without error
\* while the image is pulled (Get starts the pull); else the root disk is
\* created from the image unless it exists
ReconcileImage(w) ==
    /\ UNCHANGED held
    /\ pc[w] = "image"
    /\ LET m == mach[w]
       IN \/ /\ ImageCacheGet(imageCache, m.image) = "ErrImagePulling"
             /\ imageCache' = [ imageCache EXCEPT ![m.image] = "pulling" ]
             /\ Return(w, FALSE)
             /\ UNCHANGED << nicStore, nicCopy, dirs, faults >>
          \/ /\ ImageCacheGet(imageCache, m.image) = "ok"
             /\ dirs' = dirs \cup { RootFsFile(m.id) }
             /\ Goto(w, AfterImage(m))
             /\ UNCHANGED << imageCache, nicStore, nicCopy, faults >>
          \/ /\ Fault
             /\ Return(w, TRUE)
             /\ UNCHANGED << imageCache, nicStore, nicCopy, dirs >>
    /\ UNCHANGED << scenario, restarts, reply, store, created, wq, delayed, wid, mach, vminfo, calls >>
    /\ UNCHANGED << free, vm, volDirs, nicDirs, qmpNodes, qmpExports >>

UpdateOk(w, m) ==
    /\ UpdateResult(m) = "ok"
    /\ store' = StoreAfterUpdate(m)
    /\ mach' = [ Outdate(m.id, w) EXCEPT ![w] = m ]
    /\ wq' = QAdd(wq, m.id)
    /\ UNCHANGED faults

\* a store Update that fails: not found, stale version, or an I/O failure
UpdateFails(w, m) ==
    /\ \/ UpdateResult(m) # "ok" /\ UNCHANGED faults
       \/ UpdateResult(m) = "ok" /\ Fault
    /\ UNCHANGED << store, wq >>

AddFinalizer(w) ==
    /\ UNCHANGED held
    /\ pc[w] = "finalizer"
    /\ LET m == [ mach[w] EXCEPT !.fin = @ \cup { MachineFinalizer } ]
       IN \/ UpdateOk(w, m) /\ Return(w, FALSE)
          \/ UpdateFails(w, m) /\ Return(w, TRUE) /\ UNCHANGED mach
    /\ UNCHANGED << scenario, imageCache, nicStore, nicCopy, restarts, reply, created, delayed, wid, vminfo, calls >>
    /\ UNCHANGED hostVars

\* Manager.GetFreeApiSocket: pops any free socket; no socket: return nil
GetFreeApiSocket(w) ==
    /\ UNCHANGED held
    /\ pc[w] = "getsock"
    /\ IF free = {}
       THEN Return(w, FALSE) /\ UNCHANGED << free, mach >>
       ELSE \E s \in free :
              /\ free' = free \ {s}
              /\ mach' = [ mach EXCEPT ![w].sock = s ]
              /\ Goto(w, "persist")
    /\ UNCHANGED << scenario, imageCache, nicStore, nicCopy, restarts, reply, store, created, wq, delayed, wid, vminfo, calls, faults >>
    /\ UNCHANGED << vm, dirs, volDirs, nicDirs, qmpNodes, qmpExports >>

\* a reconcileMachine that goes on to Ping whatever the Update returned
AfterPersistIgnoringError(ok) == "ping"

\* where the pass goes after the Update that persists the socket
AfterPersist(ok) == IF ok THEN "ping" ELSE "done"

PersistSocket(w) ==
    /\ UNCHANGED held
    /\ pc[w] = "persist"
    /\ \/ /\ UpdateOk(w, mach[w])
          /\ pc' = [ pc EXCEPT ![w] = AfterPersist(TRUE) ]
          /\ UNCHANGED err
       \/ /\ UpdateFails(w, mach[w])
          /\ pc' = [ pc EXCEPT ![w] = AfterPersist(FALSE) ]
          /\ err' = [ err EXCEPT ![w] = TRUE ]
          /\ UNCHANGED mach
    /\ UNCHANGED << scenario, imageCache, nicStore, nicCopy, restarts, reply, created, delayed, wid, vminfo, calls >>
    /\ UNCHANGED hostVars

\* (a variant that sends the call of the power intent whatever the VM's state)
PowerCallUnconditional(m, info) ==
    IF m.power = PowerStatePowerOn THEN "PowerOn" ELSE "PowerOff"

\* the power call reconcileMachine makes for the GetVM response it holds
PowerCall(m, info) ==
    IF m.power = PowerStatePowerOn /\ ~info.running THEN "PowerOn"
    ELSE IF m.power = PowerStatePowerOff /\ info.running THEN "PowerOff"
    ELSE "none"

(***************************************************************************)
(* idMu: every Manager operation locks idMu[instanceID] before it looks the *)
(* instance up and unlocks it when it returns.                              *)
(***************************************************************************)
\* the instanceID of the Manager call worker w is about to make
InstanceID(w) ==
    IF pc[w] = "del_poweroff" THEN PowerOffTarget(mach[w])
    ELSE IF pc[w] = "del_vmm" THEN DeleteTarget(mach[w])
    ELSE mach[w].sock

\* a Manager that keeps one mutex per machine instead of one per instanceID
LockKeyPerMachine(w) == wid[w]

\* the key of idMu a Manager operation locks
LockKey(w) == InstanceID(w)

\* what the loops of attachDetachDisks / attachDetachNICs do for worker w
DisksRun(w, failAt) ==
    AttachDetachDisksLoop(mach[w], vminfo[w].disks, 1, failAt,
        LoopStart(IF mach[w].sock \in instances THEN vm[mach[w].sock] ELSE NoVm))

NicsRun(w, failAt) ==
    AttachDetachNICsLoop(mach[w], NicNames(vminfo[w]), 1, failAt,
        LoopStart(IF mach[w].sock \in instances THEN vm[mach[w].sock] ELSE NoVm))

\* whether the step worker w is at calls the Manager
NeedsLock(w) ==
    \/ pc[w] \in { "ping", "getvm", "createvm", "del_state", "del_poweroff", "del_vmm" }
    \/ pc[w] = "power" /\ PowerCall(mach[w], vminfo[w]) # "none"
    \/ pc[w] = "disks" /\ DisksRun(w, 0).sent
    \/ pc[w] = "nicsattach" /\ NicsRun(w, 0).sent

\* idMu.Lock(instanceID): waits while another worker holds the same key
IdMuLock(w) ==
    /\ NeedsLock(w)
    /\ ~held[w]
    /\ \A x \in Workers : held[x] => LockKey(x) # LockKey(w)
    /\ held' = [ held EXCEPT ![w] = TRUE ]
    /\ UNCHANGED << scenario, imageCache, nicStore, nicCopy, restarts, reply, store, created, wq, delayed, pc, wid, mach, err,
                    vminfo, calls, faults >>
    /\ UNCHANGED << free, vm, dirs, volDirs, nicDirs, qmpNodes, qmpExports >>

\* Manager.Ping
Ping(w) ==
    /\ pc[w] = "ping"
    /\ held[w] = NeedsLock(w)
    /\ held' = [ held EXCEPT ![w] = FALSE ]
    /\ IF mach[w].sock \notin instances
       THEN Return(w, TRUE) /\ UNCHANGED << calls, faults >>
       ELSE /\ Sent(w, "Ping", mach[w].sock)
            /\ \/ Goto(w, "volumes") /\ UNCHANGED faults
               \/ Fault /\ Return(w, TRUE)
    /\ UNCHANGED << scenario, imageCache, nicStore, nicCopy, restarts, reply, store, created, wq, delayed, wid, mach, vminfo >>
    /\ UNCHANGED hostVars

\* reconcileVolumes: the plugin calls of every volume, then one store Update;
\* a plugin call that fails at volume k leaves the effects of the k-1 before it
ReconcileVolumes(w) ==
    /\ UNCHANGED held
    /\ pc[w] = "volumes"
    /\ LET m == mach[w]
           done == ReconcileVolumesHost(m, Len(m.vols), HostVolumes)
           m2 == [ m EXCEPT !.vols = ReconcileVolumesSpec(m),
                            !.vstat = ReconcileVolumesStatus(m) ]
       IN \/ /\ volDirs' = done.dirs
             /\ qmpNodes' = done.nodes
             /\ qmpExports' = done.exports
             /\ \/ UpdateOk(w, m2) /\ Goto(w, "nics")
                \/ UpdateFails(w, m2) /\ Return(w, TRUE) /\ UNCHANGED mach
          \/ \E k \in 1..Len(m.vols) :
                LET part == ReconcileVolumesHost(m, k - 1, HostVolumes)
                IN /\ Fault
                   /\ volDirs' = part.dirs
                   /\ qmpNodes' = part.nodes
                   /\ qmpExports' = part.exports
                   /\ Return(w, TRUE)
                   /\ UNCHANGED << store, wq, mach >>
    /\ UNCHANGED << scenario, imageCache, nicStore, nicCopy, restarts, reply, created, delayed, wid, vminfo, calls >>
    /\ UNCHANGED << free, vm, dirs, nicDirs >>

\* reconcileNics
ReconcileNics(w) ==
    /\ UNCHANGED held
    /\ pc[w] = "nics"
    /\ LET m == mach[w]
           m2 == [ m EXCEPT !.nics = ReconcileNicsSpec(m),
                            !.nstat = ReconcileNicsStatus(m) ]
       IN \/ /\ nicDirs' = ReconcileNicsHost(m, Len(m.nics), nicDirs)
             /\ \/ UpdateOk(w, m2) /\ Goto(w, "getvm")
                \/ UpdateFails(w, m2) /\ Return(w, TRUE) /\ UNCHANGED mach
          \/ \E k \in 1..Len(m.nics) :
                /\ Fault
                /\ nicDirs' = ReconcileNicsHost(m, k - 1, nicDirs)
                /\ Return(w, TRUE)
                /\ UNCHANGED << store, wq, mach >>
    /\ UNCHANGED << scenario, imageCache, nicStore, nicCopy, restarts, reply, created, delayed, wid, vminfo, calls >>
    /\ UNCHANGED << free, vm, dirs, volDirs, qmpNodes, qmpExports >>

\* Manager.GetVM and the check of the platform UUID
GetVM(w) ==
    /\ pc[w] = "getvm"
    /\ held[w] = NeedsLock(w)
    /\ held' = [ held EXCEPT ![w] = FALSE ]
    /\ LET s == mach[w].sock
           r == GetVMResult(s)
       IN IF r = "ErrNotFound"
          THEN Return(w, TRUE) /\ UNCHANGED << calls, vminfo, faults >>
          ELSE /\ Sent(w, "GetVM", s)
               /\ \/ Fault /\ Return(w, TRUE) /\ UNCHANGED vminfo
                  \/ /\ r = "ErrVmNotCreated"
                     /\ Goto(w, "createvm")
                     /\ UNCHANGED << vminfo, faults >>
                  \/ /\ r = "ok"
                     /\ vminfo' = [ vminfo EXCEPT ![w] = vm[s] ]
                     /\ IF vm[s].uuid # mach[w].id
                        THEN Return(w, TRUE)
                        ELSE Goto(w, "power")
                     /\ UNCHANGED faults
    /\ UNCHANGED << scenario, imageCache, nicStore, nicCopy, restarts, reply, store, created, wq, delayed, wid, mach >>
    /\ UNCHANGED hostVars

\* the queue after a successful CreateVM: queue.Add of the machine itself
AfterCreateVM(q, id) == QAdd(q, id)

\* Manager.CreateVM, then queue.Add of the machine itself
CreateVM(w) ==
    /\ pc[w] = "createvm"
    /\ held[w] = NeedsLock(w)
    /\ held' = [ held EXCEPT ![w] = FALSE ]
    /\ LET m == mach[w]
           r == CreateVMResult(m)
       IN IF r \in { "ErrNotFound", "NicNotAttached" }
          THEN Return(w, TRUE) /\ UNCHANGED << calls, vm, wq, faults >>
          ELSE /\ Sent(w, "CreateVM", m.sock)
               /\ \/ /\ r = "ok"
                     /\ vm' = [ vm EXCEPT ![m.sock] = CreatedVm(m) ]
                     /\ wq' = AfterCreateVM(wq, m.id)
                     /\ Return(w, FALSE)
                     /\ UNCHANGED faults
                  \/ /\ r = "ProtocolError"
                     /\ Return(w, TRUE)
                     /\ UNCHANGED << vm, wq, faults >>
                  \/ /\ Fault
                     /\ Return(w, TRUE)
                     /\ UNCHANGED << vm, wq >>
    /\ UNCHANGED << scenario, imageCache, nicStore, nicCopy, restarts, reply, store, created, delayed, wid, mach, vminfo >>
    /\ UNCHANGED << free, dirs, volDirs, nicDirs, qmpNodes, qmpExports >>

Power(w) ==
    /\ pc[w] = "power"
    /\ held[w] = NeedsLock(w)
    /\ held' = [ held EXCEPT ![w] = FALSE ]
    /\ LET s == mach[w].sock
           op == PowerCall(mach[w], vminfo[w])
           r == IF op = "PowerOn" THEN PowerOnResult(s) ELSE PowerOffResult(s)
       IN IF op = "none"
          THEN Goto(w, "disks") /\ UNCHANGED << calls, vm, faults >>
          ELSE IF r = "ErrNotFound"
          THEN Return(w, TRUE) /\ UNCHANGED << calls, vm, faults >>
          ELSE /\ Sent(w, op, s)
               /\ \/ /\ r = "ok"
                     /\ vm' = [ vm EXCEPT ![s].running = (op = "PowerOn") ]
                     /\ Goto(w, "disks")
                     /\ UNCHANGED faults
                  \/ /\ r = "ProtocolError"
                     /\ Return(w, TRUE)
                     /\ UNCHANGED << vm, faults >>
                  \/ /\ Fault
                     /\ Return(w, TRUE)
                     /\ UNCHANGED vm
    /\ UNCHANGED << scenario, imageCache, nicStore, nicCopy, restarts, reply, store, created, wq, delayed, wid, mach, vminfo >>
    /\ UNCHANGED << free, dirs, volDirs, nicDirs, qmpNodes, qmpExports >>

\* attachDetachDisks: AddDisk / RemoveDevice per volume, then one store Update
AttachDetachDisks(w) ==
    /\ pc[w] = "disks"
    /\ held[w] = NeedsLock(w)
    /\ held' = [ held EXCEPT ![w] = FALSE ]
    /\ LET m == mach[w]
           s == m.sock
           Run(failAt) == AttachDetachDisksLoop(m, vminfo[w].disks, 1, failAt,
                              LoopStart(IF s \in instances THEN vm[s] ELSE NoVm))
           Effects(res) ==
               /\ vm' = IF s \in instances THEN [ vm EXCEPT ![s] = res.v ] ELSE vm
               /\ calls' = IF res.sent
                           THEN [ calls EXCEPT ![w] = @ \cup { << "AttachDetachDisk", s >> } ]
                           ELSE calls
       IN \/ /\ Run(0).ok
             /\ Effects(Run(0))
             /\ LET m2 == [ m EXCEPT !.vstat = Run(0).stat ]
                IN \/ UpdateOk(w, m2) /\ Goto(w, "nicsattach")
                   \/ UpdateFails(w, m2) /\ Return(w, TRUE) /\ UNCHANGED mach
          \/ /\ ~Run(0).ok
             /\ Effects(Run(0))
             /\ Return(w, TRUE)
             /\ UNCHANGED << store, wq, mach, faults >>
          \/ \E k \in 1..Len(m.vols) :
                /\ Run(0).ok
                /\ ~Run(k).ok
                /\ Fault
                /\ Effects(Run(k))
                /\ Return(w, TRUE)
                /\ UNCHANGED << store, wq, mach >>
    /\ UNCHANGED << scenario, imageCache, nicStore, nicCopy, restarts, reply, created, delayed, wid, vminfo >>
    /\ UNCHANGED << free, dirs, volDirs, nicDirs, qmpNodes, qmpExports >>

\* (a variant without the queue.Add after RemoveNIC)
AfterRemoveNICNoAdd(q, res, id) == q

\* r.queue.Add(machine.ID) after a RemoveNIC that succeeded
AfterRemoveNIC(q, res, id) == IF res.removed THEN QAdd(q, id) ELSE q

\* attachDetachNICs: AddNIC / RemoveNIC per NIC (queue.Add of the machine after
\* a removal), then one store Update
AttachDetachNICs(w) ==
    /\ pc[w] = "nicsattach"
    /\ held[w] = NeedsLock(w)
    /\ held' = [ held EXCEPT ![w] = FALSE ]
    /\ LET m == mach[w]
           s == m.sock
           Run(failAt) == AttachDetachNICsLoop(m, NicNames(vminfo[w]), 1, failAt,
                              LoopStart(IF s \in instances THEN vm[s] ELSE NoVm))
           Requeued(res) == AfterRemoveNIC(wq, res, m.id)
           Effects(res) ==
               /\ vm' = IF s \in instances THEN [ vm EXCEPT ![s] = res.v ] ELSE vm
               /\ calls' = IF res.sent
                           THEN [ calls EXCEPT ![w] = @ \cup { << "AttachDetachNIC", s >> } ]
                           ELSE calls
       IN \/ /\ Run(0).ok
             /\ Effects(Run(0))
             /\ LET m2 == [ m EXCEPT !.nstat = Run(0).stat ]
                IN \/ /\ UpdateResult(m2) = "ok"
                      /\ store' = StoreAfterUpdate(m2)
                      /\ mach' = [ Outdate(m.id, w) EXCEPT ![w] = m2 ]
                      /\ wq' = QAdd(Requeued(Run(0)), m.id)
                      /\ Goto(w, "status")
                      /\ UNCHANGED faults
                   \/ /\ \/ UpdateResult(m2) # "ok" /\ UNCHANGED faults
                         \/ UpdateResult(m2) = "ok" /\ Fault
                      /\ wq' = Requeued(Run(0))
                      /\ Return(w, TRUE)
                      /\ UNCHANGED << store, mach >>
          \/ /\ ~Run(0).ok
             /\ Effects(Run(0))
             /\ wq' = Requeued(Run(0))
             /\ Return(w, TRUE)
             /\ UNCHANGED << store, mach, faults >>
          \/ \E k \in 1..Len(m.nics) :
                /\ Run(0).ok
                /\ ~Run(k).ok
                /\ Fault
                /\ Effects(Run(k))
                /\ wq' = Requeued(Run(k))
                /\ Return(w, TRUE)
                /\ UNCHANGED << store, mach >>
    /\ UNCHANGED << scenario, imageCache, nicStore, nicCopy, restarts, reply, created, delayed, wid, vminfo >>
    /\ UNCHANGED << free, dirs, volDirs, nicDirs, qmpNodes, qmpExports >>

\* Status.State from the power intent, and the last store Update of the pass
StateForPower(power) == IF power = PowerStatePowerOn THEN "Running" ELSE "Terminated"

UpdateStatus(w) ==
    /\ UNCHANGED held
    /\ pc[w] = "status"
    /\ LET m2 == [ mach[w] EXCEPT !.state = StateForPower(mach[w].power) ]
       IN \/ UpdateOk(w, m2) /\ Return(w, FALSE)
          \/ UpdateFails(w, m2) /\ Return(w, TRUE) /\ UNCHANGED mach
    /\ UNCHANGED << scenario, imageCache, nicStore, nicCopy, restarts, reply, created, delayed, wid, vminfo, calls >>
    /\ UNCHANGED hostVars

(***************************************************************************)
(* deleteMachine, one step per call that leaves the process                *)
(***************************************************************************)
\* getMachineState: GetVM on the machine's socket; VmNotCreated and NotFound
\* count as Shutdown
DeleteGetState(w) ==
    /\ pc[w] = "del_state"
    /\ held[w] = NeedsLock(w)
    /\ held' = [ held EXCEPT ![w] = FALSE ]
    /\ LET s == mach[w].sock
           r == GetVMResult(s)
       IN IF r = "ErrNotFound"
          THEN Goto(w, "del_vmm") /\ UNCHANGED << calls, faults >>
          ELSE /\ Sent(w, "GetVM", s)
               /\ \/ Fault /\ Return(w, TRUE)
                  \/ /\ UNCHANGED faults
                     /\ IF r = "ok" /\ vm[s].running
                        THEN Goto(w, "del_poweroff")
                        ELSE Goto(w, "del_vmm")
    /\ UNCHANGED << scenario, imageCache, nicStore, nicCopy, restarts, reply, store, created, wq, delayed, wid, mach, vminfo >>
    /\ UNCHANGED hostVars

\* r.vmm.PowerOff(ctx, machine.ID)
DeletePowerOff(w) ==
    /\ pc[w] = "del_poweroff"
    /\ held[w] = NeedsLock(w)
    /\ held' = [ held EXCEPT ![w] = FALSE ]
    /\ LET t == PowerOffTarget(mach[w])
           r == PowerOffResult(t)
       IN IF r = "ErrNotFound"
          THEN /\ IF DeleteProceeds(r) THEN Goto(w, "del_vmm") ELSE Return(w, TRUE)
               /\ UNCHANGED << calls, vm, faults >>
          ELSE /\ Sent(w, "PowerOff", t)
               /\ \/ /\ vm' = IF r = "ok" THEN [ vm EXCEPT ![t].running = FALSE ] ELSE vm
                     /\ IF DeleteProceeds(r) THEN Goto(w, "del_vmm") ELSE Return(w, TRUE)
                     /\ UNCHANGED faults
                  \/ Fault /\ Return(w, TRUE) /\ UNCHANGED vm
    /\ UNCHANGED << scenario, imageCache, nicStore, nicCopy, restarts, reply, store, created, wq, delayed, wid, mach, vminfo >>
    /\ UNCHANGED << free, dirs, volDirs, nicDirs, qmpNodes, qmpExports >>

\* r.vmm.Delete(ctx, machine.ID)
DeleteVmm(w) ==
    /\ pc[w] = "del_vmm"
    /\ held[w] = NeedsLock(w)
    /\ held' = [ held EXCEPT ![w] = FALSE ]
    /\ LET t == DeleteTarget(mach[w])
           r == DeleteResult(t)
       IN IF r = "ErrNotFound"
          THEN /\ IF DeleteProceeds(r) THEN Goto(w, "del_plugins") ELSE Return(w, TRUE)
               /\ UNCHANGED << calls, vm, faults >>
          ELSE /\ Sent(w, "DeleteVM", t)
               /\ \/ /\ vm' = [ vm EXCEPT ![t] = NoVm ]
                     /\ IF DeleteProceeds(r) THEN Goto(w, "del_plugins") ELSE Return(w, TRUE)
                     /\ UNCHANGED faults
                  \/ Fault /\ Return(w, TRUE) /\ UNCHANGED vm
    /\ UNCHANGED << scenario, imageCache, nicStore, nicCopy, restarts, reply, store, created, wq, delayed, wid, mach, vminfo >>
    /\ UNCHANGED << free, dirs, volDirs, nicDirs, qmpNodes, qmpExports >>

\* the volume plugins' Delete for every volume of the spec, then the NIC
\* plugin's Delete for every NIC of the spec; the first failure returns
DeletePlugins(w) ==
    /\ UNCHANGED held
    /\ pc[w] = "del_plugins"
    /\ LET m == mach[w]
           vols == DeleteVolumesHost(m, Len(m.vols), HostVolumes)
       IN \/ /\ volDirs' = vols.dirs
             /\ qmpNodes' = vols.nodes
             /\ qmpExports' = vols.exports
             /\ nicDirs' = DeleteNicsHost(m, Len(m.nics), nicDirs)
             /\ Goto(w, "del_free")
             /\ UNCHANGED faults
          \/ \E k \in 1..Len(m.vols) :
                LET part == DeleteVolumesHost(m, k - 1, HostVolumes)
                IN /\ Fault
                   /\ volDirs' = part.dirs
                   /\ qmpNodes' = part.nodes
                   /\ qmpExports' = part.exports
                   /\ Return(w, TRUE)
                   /\ UNCHANGED nicDirs
          \/ \E k \in 1..Len(m.nics) :
                /\ Fault
                /\ volDirs' = vols.dirs
                /\ qmpNodes' = vols.nodes
                /\ qmpExports' = vols.exports
                /\ nicDirs' = DeleteNicsHost(m, k - 1, nicDirs)
                /\ Return(w, TRUE)
    /\ UNCHANGED << scenario, imageCache, nicStore, nicCopy, restarts, reply, store, created, wq, delayed, wid, mach, vminfo, calls >>
    /\ UNCHANGED << free, vm, dirs >>

\* Manager.FreeApiSocket
FreeApiSocket(f, socket) == f \cup { socket }

\* (a deleteMachine that frees whatever the record holds, set or not)
FreeSocketOfRecordUnchecked(f, socket) == FreeApiSocket(f, socket)

\* deleteMachine: FreeApiSocket of Spec.ApiSocketPath if it is set
FreeSocketOfRecord(f, socket) == IF socket # NoSock THEN FreeApiSocket(f, socket) ELSE f

\* FreeApiSocket of the record's socket, then os.RemoveAll of the machine
\* directory, which may fail
DeleteFreeSocket(w) ==
    /\ UNCHANGED held
    /\ pc[w] = "del_free"
    /\ free' = FreeSocketOfRecord(free, mach[w].sock)
    /\ \/ /\ dirs' = dirs \ { mach[w].id, RootFsFile(mach[w].id) }
          /\ volDirs' = RemoveAllVolDirs(mach[w].id, volDirs)
          /\ nicDirs' = RemoveAllNicDirs(mach[w].id, nicDirs)
          /\ Goto(w, "del_update")
          /\ UNCHANGED faults
       \/ /\ Fault
          /\ Return(w, TRUE)
          /\ UNCHANGED << dirs, volDirs, nicDirs >>
    /\ UNCHANGED << scenario, imageCache, nicStore, nicCopy, restarts, reply, store, created, wq, delayed, wid, mach, vminfo, calls >>
    /\ UNCHANGED << vm, qmpNodes, qmpExports >>

\* the finalizer is dropped and the record updated; ErrNotFound is ignored
DeleteDropFinalizer(w) ==
    /\ UNCHANGED held
    /\ pc[w] = "del_update"
    /\ LET m2 == [ mach[w] EXCEPT !.fin = @ \ { MachineFinalizer } ]
       IN \/ UpdateOk(w, m2) /\ Return(w, FALSE)
          \/ /\ UpdateResult(m2) = "ErrNotFound"
             /\ Return(w, FALSE)
             /\ UNCHANGED << store, wq, mach, faults >>
          \/ /\ \/ UpdateResult(m2) = "ErrResourceVersionNotLatest" /\ UNCHANGED faults
                \/ UpdateResult(m2) = "ok" /\ Fault
             /\ Return(w, TRUE)
             /\ UNCHANGED << store, wq, mach >>
    /\ UNCHANGED << scenario, imageCache, nicStore, nicCopy, restarts, reply, created, delayed, wid, vminfo, calls >>
    /\ UNCHANGED hostVars

(***************************************************************************)
(* Specification                                                           *)
(***************************************************************************)
Reconcile(w) ==
    \/ Fetch(w)
    \/ AddFinalizer(w)
    \/ ReconcileImage(w)
    \/ GetFreeApiSocket(w)
    \/ PersistSocket(w)
    \/ Ping(w)
    \/ ReconcileVolumes(w)
    \/ ReconcileNics(w)
    \/ GetVM(w)
    \/ CreateVM(w)
    \/ Power(w)
    \/ AttachDetachDisks(w)
    \/ AttachDetachNICs(w)
    \/ UpdateStatus(w)

Delete(w) ==
    \/ DeleteGetState(w)
    \/ DeletePowerOff(w)
    \/ DeleteVmm(w)
    \/ DeletePlugins(w)
    \/ DeleteFreeSocket(w)
    \/ DeleteDropFinalizer(w)

Next ==
    \/ \E id \in Machines, req \in CreateRequests \cup { TwoVolumesRequest, ImageRequest },
          iriMachine \in IriMachines :
          CreateMachine(id, req, iriMachine)
    \/ \E id \in Machines : ListMachines(id)
    \/ \E id \in Machines : DeleteMachine(id)
    \/ \E id \in Machines, name \in VolumeNames : AttachVolume(id, name)
    \/ \E id \in Machines, name \in VolumeNames : DetachVolume(id, name)
    \/ \E id \in Machines, name \in NicRequestNames : DetachNetworkInterface(id, name)
    \/ \E s \in Sockets : VmLost(s)
    \/ Restart
    \/ \E id \in Machines : Resync(id)
    \/ \E id \in Machines : DelayedAdd(id)
    \/ \E w \in Workers : ProcessGet(w)
    \/ \E w \in Workers : IdMuLock(w)
    \/ \E w \in Workers : Reconcile(w)
    \/ \E w \in Workers : Delete(w)
    \/ \E w \in Workers : ProcessDone(w)
    \/ Shutdown
    \/ \E w \in Workers : WorkerExit(w)
    \/ \E ref \in ImageRefs : PullDone(ref)

Spec == Init /\ [][Next]_vars

\* the histories of one machine with volumes and NICs
InitDevices == \E sc \in DeviceScenarios : InitOf(sc)
SpecDevices == InitDevices /\ [][Next]_vars

\* the workers alone: every worker goroutine that can take a step takes one
\* (they are goroutines of one process), and every backoff timer fires
WorkerStep(w) ==
    ProcessGet(w) \/ IdMuLock(w) \/ Reconcile(w) \/ Delete(w) \/ ProcessDone(w) \/ WorkerExit(w)

Fairness ==
    /\ \A w \in Workers : WF_vars(WorkerStep(w))
    /\ \A id \in Machines : WF_vars(DelayedAdd(id))

\* machines created and then left to the reconciler and the image cache
InitNics == InitOf(NicScenario)

NextNics ==
    \/ \E id \in Machines, req \in { PlainRequest, NicRequest, ImageRequest } :
          CreateMachine(id, req, ValidShape)
    \/ \E ref \in ImageRefs : PullDone(ref)
    \/ \E id \in Machines : DelayedAdd(id)
    \/ \E w \in Workers : ProcessGet(w)
    \/ \E w \in Workers : IdMuLock(w)
    \/ \E w \in Workers : Reconcile(w)
    \/ \E w \in Workers : ProcessDone(w)

SpecNics == InitNics /\ [][NextNics]_vars /\ Fairness

\* the same with a shutdown at any point
InitShutdown == InitOf(ShutdownScenario)

NextShutdown ==
    \/ NextNics
    \/ Shutdown
    \/ \E w \in Workers : WorkerExit(w)

SpecShutdown == InitShutdown /\ [][NextShutdown]_vars /\ Fairness

(***************************************************************************)
(* Properties                                                              *)
(***************************************************************************)
Busy(w) == pc[w] \notin { "idle", "exited" }
Quiescent == \A w \in Workers : ~Busy(w)

\* C1: at most one worker runs reconcileMachine for a machine id at any time,
\* and an id that is being processed is not handed out by the queue again
\* (it is dirty, not queued) until the pass in progress has called Done.
C1_OneWorkerPerId ==
    /\ \A w1, w2 \in Workers :
          (w1 # w2 /\ Busy(w1) /\ Busy(w2)) => wid[w1] # wid[w2]
    /\ wq.processing = { wid[w] : w \in { x \in Workers : Busy(x) } }
    /\ \A id \in wq.processing : ~InSeq(id, wq.queue)

\* an id was added while a worker processes it, and another worker is idle
C1_Witness ==
    \E w1, w2 \in Workers :
        /\ Busy(w1)
        /\ wid[w1] \in wq.dirty
        /\ ~Busy(w2)

\* C2: at every quiescent point (no reconcile pass in progress) no socket of
\* the free set is the ApiSocketPath of a machine record of the store.
C2_FreeDisjointInUse == Quiescent => free \cap SocketsInUse = {}

\* C3: socket assignment is one-to-one: a step never replaces the socket of a
\* machine record by a different one, and after every step no socket is the
\* ApiSocketPath of two machine records of the store.
C3_OneToOne ==
    [][ /\ \A id \in DOMAIN store \cap DOMAIN store' :
              store[id].sock # NoSock => store'[id].sock = store[id].sock
        /\ \A a, b \in DOMAIN store' :
              (a # b /\ store'[a].sock # NoSock) => store'[a].sock # store'[b].sock
      ]_vars

\* C4: every socket of the free set has no VM created on its hypervisor.
C4_FreeHasNoVm == \A s \in free : ~vm[s].created

\* what deleteMachine must have released when it drops the finalizer of id
Released(id) ==
    /\ store[id].sock \in Sockets =>
          /\ ~vm[store[id].sock].created
          /\ store[id].sock \in free
    /\ id \notin dirs
    /\ \A d \in volDirs : d[1] # id
    /\ \A d \in nicDirs : d[1] # id

InDelete(w) ==
    pc[w] \in { "del_state", "del_poweroff", "del_vmm", "del_plugins", "del_free", "del_update" }

\* C5: the step that removes MachineFinalizer from a machine record happens
\* only when the VM on the machine's socket is deleted, the plugins' files
\* are gone, the socket is free and the machine directory is removed; a
\* deleteMachine that returns an error leaves the finalizer on the record.
C5_FinalizerLast ==
    [][ /\ \A id \in DOMAIN store :
              ( /\ MachineFinalizer \in store[id].fin
                /\ \/ id \notin DOMAIN store'
                   \/ MachineFinalizer \notin store'[id].fin )
              => Released(id)
        /\ \A w \in Workers :
              (InDelete(w) /\ pc'[w] = "done" /\ err'[w])
              => /\ wid[w] \in DOMAIN store'
                 /\ MachineFinalizer \in store'[wid[w]].fin
      ]_vars

\* C6: once a deleted machine has its finalizer cleared (its record has left
\* the store) and its directory removed, no volume directory, Ceph block
\* node or export, keyring file or NIC resource of that machine remains;
\* stated for the histories in which every machine created is gone.
C6_NoOrphans ==
    (created # {} /\ DOMAIN store = {} /\ Quiescent)
    => /\ dirs = {}
       /\ volDirs = {}
       /\ nicDirs = {}
       /\ qmpNodes = {}
       /\ qmpExports = {}

\* C7: the step of deleteMachine that returns the socket to the free set comes
\* after a DeleteVM sent to that socket if a VM is created on it, and after a
\* Shutdown sent to that socket if the VM is running.
C7_ShutdownDeleteBeforeFree ==
    [][ \A w \in Workers :
          ( /\ pc[w] = "del_free"
            /\ pc'[w] # "del_free"
            /\ restarts' = restarts
            /\ mach[w].sock \in Sockets )
          => /\ vm[mach[w].sock].created => << "DeleteVM", mach[w].sock >> \in calls[w]
             /\ vm[mach[w].sock].running => << "PowerOff", mach[w].sock >> \in calls[w]
      ]_vars

\* C8: the socket that a run of deleteMachine puts into the free set is not
\* the ApiSocketPath of another machine record at that moment.
C8_NoRefreeOfAssigned ==
    [][ \A w \in Workers :
          ( /\ pc[w] = "del_free"
            /\ pc'[w] # "del_free"
            /\ restarts' = restarts
            /\ mach[w].sock # NoSock )
          => \A id \in DOMAIN store : id # wid[w] => store[id].sock # mach[w].sock
      ]_vars

\* C9: a REST request is sent to a socket on behalf of a machine only when
\* the record of the store carries that socket as its ApiSocketPath; a pass
\* whose Update persisting the socket failed ends without a REST request.
C9_PersistBeforeRest ==
    [][ \A w \in Workers :
          /\ \A c \in calls'[w] \ calls[w] :
                /\ Stored(wid[w])
                /\ store[wid[w]].sock = c[2]
          /\ ( /\ pc[w] = "persist"
               /\ pc'[w] # "persist"
               /\ restarts' = restarts
               /\ ~(wid[w] \in DOMAIN store' /\ store'[wid[w]].sock = mach[w].sock) )
             => (pc'[w] = "done" /\ err'[w] /\ calls'[w] = {})
      ]_vars

\* a pass has pinged the socket that the record of its machine carries,
\* before anything else was done for the machine
C9_Witness ==
    \E w \in Workers :
        /\ pc[w] = "volumes"
        /\ Stored(wid[w])
        /\ store[wid[w]].vstat = << >>
        /\ store[wid[w]].state = "Pending"
        /\ << "Ping", store[wid[w]].sock >> \in calls[w]

\* C10: when the Update that persists a socket popped by GetFreeApiSocket
\* fails, the socket is a member of free again once the pass has ended.
C10_SocketNotLost ==
    [][ \A w \in Workers :
          ( /\ pc[w] = "done"
            /\ pc'[w] = "idle"
            /\ restarts' = restarts
            /\ mach[w].sock # NoSock
            /\ Stored(wid[w])
            /\ store[wid[w]].sock = NoSock )
          => mach[w].sock \in free'
      ]_vars

\* C11: when GetFreeApiSocket fails because free is empty, free is unchanged
\* and the pass ends as a retry: it returns an error, which is what makes
\* processNextWorkItem reschedule the id with AddRateLimited.
C11_NoCapacityRetried ==
    [][ \A w \in Workers :
          ( /\ pc[w] = "getsock"
            /\ pc'[w] # "getsock"
            /\ restarts' = restarts
            /\ free = {} )
          => /\ free' = free
             /\ pc'[w] = "done"
             /\ err'[w]
      ]_vars

\* C12: when GetVM returns a VM whose platform UUID differs from the machine
\* id, the pass ends without a further REST call, the machine is not requeued
\* for retry (no error return) and the stored status state is an error state.
C12_UuidMismatchFatal ==
    [][ \A w \in Workers :
          ( /\ pc[w] = "getvm"
            /\ pc'[w] # "getvm"
            /\ GetVMResult(mach[w].sock) = "ok"
            /\ vminfo'[w] = vm[mach[w].sock]
            /\ vm[mach[w].sock].uuid # mach[w].id )
          => /\ pc'[w] = "done"
             /\ ~err'[w]
             /\ wid[w] \in DOMAIN store'
             /\ store'[wid[w]].state \notin { "Pending", "Running", "Terminated" }
      ]_vars

\* C13: a worker is inside a Manager operation only while it holds the idMu
\* entry of the operation's instanceID, so no two workers are inside a
\* Manager operation against the same control socket at the same time.
C13_OneCallPerSocket ==
    \A w1, w2 \in Workers :
        ( /\ w1 # w2
          /\ held[w1]
          /\ held[w2]
          /\ InstanceID(w1) \in instances )
        => InstanceID(w1) # InstanceID(w2)

\* a worker is inside a call against a socket while another worker, about to
\* call the same socket on behalf of another machine, waits for the mutex
C13_Witness ==
    \E w1, w2 \in Workers :
        /\ w1 # w2
        /\ held[w1]
        /\ InstanceID(w1) \in instances
        /\ NeedsLock(w2)
        /\ ~held[w2]
        /\ InstanceID(w2) = InstanceID(w1)

\* C14: Manager.CreateVM makes a VM only in a pass in which every volume of
\* the machine's spec has a status with state Prepared and every NIC of the
\* spec has a status with state Prepared (the model has no root disk image);
\* with an entry in another state the pass creates no VM.
C14_CreateVMOnlyWhenPrepared ==
    [][ \A w \in Workers :
          ( /\ pc[w] = "createvm"
            /\ pc'[w] # "createvm"
            /\ mach[w].sock \in instances
            /\ ~vm[mach[w].sock].created
            /\ vm'[mach[w].sock].created )
          => /\ \A i \in 1..Len(mach[w].vols) :
                   getVolumeStatus(mach[w].vstat, mach[w].vols[i].name).state = "Prepared"
             /\ \A i \in 1..Len(mach[w].nics) :
                   getNICStatus(mach[w].nstat, mach[w].nics[i].name).state = "Prepared" ]_vars

\* C15: a record the reconciler writes never calls a volume Attached whose
\* disk (the id is the handle of the status) is missing from the VM the
\* hypervisor of the machine's socket holds at that moment, which is the disk
\* list the next GetVM returns; this includes the pass that sent
\* RemoveDevice for a volume with a deletion timestamp and the passes after
\* the VM was created again.
C15_AttachedIsInVm ==
    [][ \A w \in Workers :
          ( /\ pc[w] \in { "volumes", "nics", "disks", "nicsattach", "status" }
            /\ pc'[w] # pc[w]
            /\ wid[w] \in DOMAIN store'
            /\ store' # store
            /\ store'[wid[w]].sock \in instances
            /\ vm'[store'[wid[w]].sock].created )
          => \A i \in 1..Len(store'[wid[w]].vstat) :
                store'[wid[w]].vstat[i].state = "Attached"
                => store'[wid[w]].vstat[i].handle \in vm'[store'[wid[w]].sock].disks ]_vars

\* C16: the stored status of a volume or NIC that stays in the spec moves
\* only Pending -> Prepared -> Attached, and Attached -> Prepared only for an
\* entry with a deletion timestamp whose device has left the VM; it never
\* falls from Attached to Pending, and the status entry of an entry without
\* a deletion timestamp never disappears.
StatusStep(old, new, detached) ==
    \/ old = new
    \/ old = "Pending" /\ new = "Prepared"
    \/ old = "Prepared" /\ new = "Attached"
    \/ old = "Attached" /\ new = "Prepared" /\ detached

HasStatus(stat, name) == \E i \in 1..Len(stat) : stat[i].name = name

DiskDetached(m, v, name) ==
    m.sock \in instances => getVolumeStatus(m.vstat, name).handle \notin v[m.sock].disks

NicDetached(m, v, name) ==
    m.sock \in instances => getNicID(name) \notin v[m.sock].devs

C16_StatusMovesForward ==
    [][ \A id \in DOMAIN store \cap DOMAIN store' :
          /\ \A i \in 1..Len(store'[id].vols) :
                LET vol == store'[id].vols[i]
                IN /\ StatusStep(getVolumeStatus(store[id].vstat, vol.name).state,
                                 getVolumeStatus(store'[id].vstat, vol.name).state,
                                 vol.del /\ DiskDetached(store'[id], vm', vol.name))
                   /\ (~vol.del /\ HasStatus(store[id].vstat, vol.name))
                      => HasStatus(store'[id].vstat, vol.name)
          /\ \A i \in 1..Len(store'[id].nics) :
                LET nic == store'[id].nics[i]
                IN /\ StatusStep(getNICStatus(store[id].nstat, nic.name).state,
                                 getNICStatus(store'[id].nstat, nic.name).state,
                                 nic.del /\ NicDetached(store'[id], vm', nic.name))
                   /\ (~nic.del /\ HasStatus(store[id].nstat, nic.name))
                      => HasStatus(store'[id].nstat, nic.name) ]_vars

\* C17 as stated: a step of a reconcile pass leaves the stored spec as it
\* is, except that ApiSocketPath may be set: it does not add, remove,
\* reorder or modify entries of Spec.Volumes and Spec.NetworkInterfaces and
\* leaves Power alone.
C17_SpecUnchanged ==
    [][ pc' # pc =>
          \A id \in DOMAIN store \cap DOMAIN store' :
             /\ store'[id].vols = store[id].vols
             /\ store'[id].nics = store[id].nics
             /\ store'[id].power = store[id].power
             /\ (store'[id].sock = store[id].sock \/ store[id].sock = NoSock) ]_vars

IsFiltered(old, new) == new = SelectSeq(old, LAMBDA e : InSeq(e, new))
Removed(old, new) == { old[i] : i \in { j \in 1..Len(old) : ~InSeq(old[j], new) } }

\* C17, amended: a step of a reconcile pass leaves Power alone, sets
\* ApiSocketPath only when it was unset, and changes Spec.Volumes and
\* Spec.NetworkInterfaces only by removing entries that carry a deletion
\* timestamp and whose recorded status is not Attached; the other entries
\* keep their content and their order.
C17_SpecOnlyLosesDetached ==
    [][ pc' # pc =>
          \A id \in DOMAIN store \cap DOMAIN store' :
             /\ store'[id].power = store[id].power
             /\ (store'[id].sock = store[id].sock \/ store[id].sock = NoSock)
             /\ IsFiltered(store[id].vols, store'[id].vols)
             /\ \A v \in Removed(store[id].vols, store'[id].vols) :
                   v.del /\ getVolumeStatus(store[id].vstat, v.name).state # "Attached"
             /\ IsFiltered(store[id].nics, store'[id].nics)
             /\ \A n \in Removed(store[id].nics, store'[id].nics) :
                   n.del /\ getNICStatus(store[id].nstat, n.name).state # "Attached" ]_vars

\* a machine created with a volume and a NIC whose volume has left the spec
C17_Witness ==
    \E id \in DOMAIN store : store[id].nics # << >> /\ store[id].vols = << >>

\* C18: when the provider starts again on a populated store, NewManager puts
\* no socket into free that a stored record names as its ApiSocketPath, even
\* if the hypervisor behind it reports no VM; a socket is free after the
\* start only if its GetVM says VmNotCreated and it is not reserved.
C18_RestartKeepsAssigned ==
    [][ restarts' # restarts =>
          /\ \A id \in DOMAIN store : store[id].sock \notin free'
          /\ \A s \in free' : GetVMResult(s) = "ErrVmNotCreated" /\ s \notin SocketsInUse ]_vars

\* after a restart: a stored machine whose socket holds no VM, and the
\* socket is not free
C18_Witness ==
    /\ restarts > 0
    /\ \A w \in Workers : pc[w] = "idle"
    /\ wq.queue = << >>
    /\ \E id \in DOMAIN store :
          /\ store[id].sock \in instances
          /\ ~vm[store[id].sock].created
          /\ store[id].sock \notin free
          /\ free # {}

C20_CreateThenList ==
    [][ /\ (reply' # reply /\ reply'.op = "CreateMachine")
           => IF /\ reply'.request.machine
                 /\ reply'.request.spec
                 /\ reply'.request.metadata
                 /\ reply'.request.class \in MachineClassRegistry
              THEN /\ reply'.err = ""
                   /\ reply'.state = "Pending"
                   /\ \E id \in Machines :
                         /\ reply'.ids = {id}
                         /\ id # NoId
                         /\ id \notin DOMAIN store
                         /\ DOMAIN store' = DOMAIN store \cup {id}
                         /\ store'[id].state = "Pending"
              ELSE /\ reply'.err # ""
                   /\ store' = store
                   /\ created' = created
                   /\ wq' = wq
        /\ ( /\ reply'.op = "ListMachines"
             /\ reply.op = "CreateMachine"
             /\ reply.err = ""
             /\ reply'.request.id \in reply.ids
             /\ reply'.request.id \in DOMAIN store )
           => reply'.ids = reply.ids ]_vars

\* ListMachines has returned the machine CreateMachine stored, still Pending
C20_Witness ==
    /\ reply.op = "ListMachines"
    /\ \E id \in DOMAIN store :
          /\ reply.ids = {id}
          /\ store[id].state = "Pending"
          /\ store[id].fin = {}

\* C21: DetachVolume and DetachNetworkInterface set the deletion timestamp on
\* exactly the entry with the given name, keep that entry in the spec and
\* leave every other volume and NIC entry (and the rest of the record) as it
\* is; without an entry of that name the call fails and the stored record is
\* unchanged.
OnlyNamedMarked(old, new, name) ==
    /\ Len(new) = Len(old)
    /\ \A i \in 1..Len(old) :
          new[i] = IF old[i].name = name THEN [ old[i] EXCEPT !.del = TRUE ] ELSE old[i]

C22_AttachThenDetachTakesEffect ==
    [][ LET id == reply.request.id
            name == reply.request.name
        IN ( /\ reply.op = "AttachVolume" /\ reply.err = ""
             /\ Stored(id) /\ store[id].sock # NoSock /\ vm[store[id].sock].created
             /\ reply' # reply /\ reply'.op = "DetachVolume"
             /\ reply'.request = reply.request )
           => /\ reply'.err = ""
              /\ Stored(id)'
              /\ \E i \in 1..Len(store'[id].vols) :
                    store'[id].vols[i].name = name /\ store'[id].vols[i].del
      ]_vars

\* C23: a machine whose spec holds a NIC (the isolated plugin reports every
\* NIC as Pending) never has a VM created for it, and every machine without
\* a NIC (and with nothing to wait for: no image to pull) is still brought to
\* a created, running VM and state Running.
HasVm(id) == \E s \in Sockets : vm[s].created /\ vm[s].uuid = id

IsRunning(id) ==
    /\ Stored(id)
    /\ store[id].sock # NoSock
    /\ vm[store[id].sock] = [ created |-> TRUE, running |-> TRUE, uuid |-> id, disks |-> {}, devs |-> {} ]
    /\ store[id].state = "Running"

C23_PendingNicBlocksOnlyItself ==
    /\ [](\A id \in DOMAIN store : store[id].nics # << >> => ~HasVm(id))
    /\ \A id \in Machines :
          ( /\ Stored(id) /\ store[id].nics = << >> /\ store[id].power = PowerStatePowerOn
            /\ store[id].image = "" ) ~> IsRunning(id)

\* one machine runs while the pass of the other one has just failed in CreateVM
C23_Witness ==
    \E a, b \in DOMAIN store, w \in Workers :
        /\ store[a].nics # << >>
        /\ wid[w] = a /\ pc[w] = "done" /\ err[w]
        /\ mach[w].nstat # << >>
        /\ ~HasVm(a)
        /\ IsRunning(b)

\* C24: a machine created with no image, no volumes and no NICs is stored
\* with state Pending and its state is Running in no later state.
C24_EmptyMachineNeverRunning ==
    scenario.reqs = { PlainRequest }
        => \A id \in DOMAIN store : store[id].state # "Running"

\* C25: once the context is cancelled and the queue shut down, every worker
\* leaves its loop and Start returns; no worker stays in Get for ever, a
\* worker leaves only when the queue is shut down and drained, and nothing is
\* queued or in progress when Start returns.
C25_ShutdownEndsWorkers ==
    /\ wq.shuttingDown ~> StartReturned
    /\ [](StartReturned => wq.queue = << >> /\ wq.processing = {})
    /\ [][\A w \in Workers :
            /\ pc[w] = "exited" => pc'[w] = "exited"
            /\ (pc[w] # "exited" /\ pc'[w] = "exited") => wq.shuttingDown /\ wq.queue = << >>
         ]_vars

\* Start has returned after both machines were handed to workers
C25_Witness ==
    /\ StartReturned
    /\ DOMAIN store = Machines
    /\ \E id \in DOMAIN store : store[id].sock # NoSock

\* C26: every id a worker got from the queue stays in progress until the one
\* Done at the end of its pass, no two workers hold the same id; a pass that
\* returned an error leaves its id waiting for AddRateLimited's backoff (so it
\* is retried), a pass that returned nil adds nothing: its id is queued again
\* only if an Add arrived during the pass.
C26_GetDoneRequeue ==
    /\ []( /\ wq.processing = { wid[w] : w \in { x \in Workers : Busy(x) } }
           /\ \A w, x \in Workers : (Busy(w) /\ Busy(x) /\ wid[w] = wid[x]) => w = x )
    /\ [][ \A w \in Workers :
              (pc[w] = "done" /\ pc'[w] = "idle" /\ restarts' = restarts)
              => LET id == wid[w]
                 IN /\ id \in wq.processing
                    /\ id \notin wq'.processing
                    /\ (err[w] /\ ~wq.shuttingDown) => id \in delayed'
                    /\ ~err[w] => /\ delayed' = delayed
                                  /\ InSeq(id, wq'.queue) <=> id \in wq.dirty
         ]_vars

\* a failed pass is over and its id waits for the backoff, neither queued
\* nor in progress
C26_Witness ==
    \E id \in delayed :
        /\ id \notin wq.processing
        /\ ~InSeq(id, wq.queue)
        /\ Quiescent

\* C27: a pass that finds a machine without deletion timestamp and without
\* MachineFinalizer only adds the finalizer, stores the record and returns;
\* so a stored machine that has a machine directory, a socket, a volume or
\* NIC a plugin applied, or a VM bears MachineFinalizer.
HasHostState(id) ==
    \/ id \in dirs
    \/ store[id].sock # NoSock
    \/ \E x \in volDirs \cup nicDirs : x[1] = id
    \/ store[id].vstat # << >>
    \/ store[id].nstat # << >>
    \/ HasVm(id)

C27_FinalizerBeforeResources ==
    /\ [](\A id \in DOMAIN store : HasHostState(id) => MachineFinalizer \in store[id].fin)
    /\ [][ \A w \in Workers :
              ( /\ pc[w] = "finalizer" /\ pc'[w] # "finalizer" /\ restarts' = restarts
                /\ MachineFinalizer \notin mach[w].fin )
              => /\ pc'[w] = "done"
                 /\ calls'[w] = calls[w]
                 /\ << free, vm, dirs, volDirs, nicDirs, qmpNodes, qmpExports >>' =
                      << free, vm, dirs, volDirs, nicDirs, qmpNodes, qmpExports >>
                 /\ \A id \in DOMAIN store' :
                       /\ id \in DOMAIN store
                       /\ store'[id] \in { store[id], [ store[id] EXCEPT !.fin = @ \cup { MachineFinalizer } ] }
         ]_vars

\* a machine with finalizer, directory, socket and VM
C27_Witness ==
    \E id \in DOMAIN store :
        /\ MachineFinalizer \in store[id].fin
        /\ id \in dirs
        /\ store[id].sock # NoSock
        /\ HasVm(id)

\* C28: while the image cache reports the root image as being pulled, the
\* pass ends without error, assigns no socket and sends no REST call; when
\* the pull of a ref is done every stored machine with that image is added to
\* the queue, and such a machine is eventually reconciled past the image
\* step (its root disk exists and it has a socket).
PastImage(id) == RootFsFile(id) \in dirs /\ store[id].sock # NoSock

C28_PullingEndsPassPullDoneRequeues ==
    /\ [][ \A w \in Workers :
              ( /\ pc[w] = "image" /\ pc'[w] # "image" /\ restarts' = restarts
                /\ ImageCacheGet(imageCache, mach[w].image) = "ErrImagePulling" /\ faults' = faults )
              => /\ pc'[w] = "done" /\ ~err'[w]
                 /\ calls'[w] = calls[w]
                 /\ << store, free, vm, dirs >>' = << store, free, vm, dirs >>
         ]_vars
    /\ [][ \A ref \in ImageRefs :
              (imageCache[ref] # "done" /\ imageCache'[ref] = "done" /\ ~wq.shuttingDown)
              => \A id \in DOMAIN store : store[id].image = ref => id \in wq'.dirty
         ]_vars
    /\ \A id \in Machines :
          (Stored(id) /\ store[id].image # "" /\ imageCache[store[id].image] = "done")
              ~> (Stored(id) /\ PastImage(id))

\* the pass of a machine ended at the image step, nothing was going on, and
\* the end of the pull has put the machine into the queue again
C28_Witness ==
    \E id \in DOMAIN store :
        /\ store[id].image # ""
        /\ imageCache[store[id].image] = "done"
        /\ id \in dirs
        /\ RootFsFile(id) \notin dirs
        /\ store[id].sock = NoSock
        /\ Quiescent
        /\ InSeq(id, wq.queue)

\* C29: CreateVM is sent only in a pass whose GetVM reported that the VM is
\* not created; after a successful CreateVM the id is added to the queue at
\* once and the pass ends without error and without a further call; any
\* other error of GetVM ends the pass with an error and without CreateVM.
CreateVMSent(c) == \E s \in Sockets : << "CreateVM", s >> \in c

C29_CreateVMAfterNotCreated ==
    [][ \A w \in Workers : restarts' = restarts =>
          /\ (pc[w] = "getvm" /\ pc'[w] # "getvm")
             => /\ pc'[w] \in { "createvm", "power", "done" }
                /\ pc'[w] = "createvm"
                   => /\ mach[w].sock \in instances /\ ~vm[mach[w].sock].created
                      /\ << "GetVM", mach[w].sock >> \in calls'[w]
                /\ pc'[w] = "done" => err'[w] /\ ~CreateVMSent(calls'[w])
                /\ vm' = vm
          /\ (CreateVMSent(calls'[w]) /\ ~CreateVMSent(calls[w]))
             => /\ pc[w] = "createvm"
                /\ << "GetVM", mach[w].sock >> \in calls[w]
                /\ vminfo[w] = NoVm
                /\ pc'[w] = "done"
                /\ vm'[mach[w].sock].created /\ ~vm[mach[w].sock].created
                   => /\ ~err'[w]
                      /\ wq.shuttingDown \/ wid[w] \in wq'.dirty
                      /\ store' = store
                /\ ~(vm'[mach[w].sock].created /\ ~vm[mach[w].sock].created)
                   => err'[w] /\ vm' = vm
          /\ \A s \in Sockets :
                (~vm[s].created /\ vm'[s].created)
                => \E x \in Workers : pc[x] = "createvm" /\ mach[x].sock = s /\ CreateVMSent(calls'[x])
      ]_vars

\* the pass has just created the VM and the id is in the queue again
C29_Witness ==
    \E w \in Workers :
        /\ pc[w] = "done" /\ ~err[w]
        /\ calls[w] = { << "Ping", mach[w].sock >>, << "GetVM", mach[w].sock >>, << "CreateVM", mach[w].sock >> }
        /\ vm[mach[w].sock].created /\ ~vm[mach[w].sock].running
        /\ vm[mach[w].sock].uuid = wid[w]
        /\ wid[w] \in wq.dirty

\* C30: in attachDetachDisks a volume without deletion timestamp whose
\* handle is not among the disks of the VM is added with AddDisk and becomes
\* Attached if its state is Prepared; otherwise it is skipped: no AddDisk for
\* it, and its status entry is left as it was. If AddDisk fails the pass
\* returns an error and stores no status change.
C30_AttachOnlyPrepared ==
    [][ \A w \in Workers :
          (pc[w] = "disks" /\ pc'[w] # "disks" /\ restarts' = restarts)
          => LET m == mach[w]
                 cur == vminfo[w].disks
             IN /\ pc'[w] = "nicsattach"
                   => \A i \in 1..Len(m.vols) :
                         LET status == getVolumeStatus(m.vstat, m.vols[i].name)
                             stored == getVolumeStatus(store'[m.id].vstat, m.vols[i].name)
                         IN (~m.vols[i].del /\ status.handle \notin cur)
                            => IF status.state = "Prepared"
                               THEN /\ status.handle \in vm'[m.sock].disks
                                    /\ stored = [ status EXCEPT !.state = "Attached" ]
                               ELSE /\ status.handle \in vm'[m.sock].disks
                                         => status.handle \in vm[m.sock].disks
                                    /\ stored = status
                                    /\ HasStatus(m.vstat, m.vols[i].name)
                                         => HasStatus(store'[m.id].vstat, m.vols[i].name)
                /\ pc'[w] = "done" => err'[w] /\ store' = store
      ]_vars

\* C31: in a run of attachDetachDisks that reaches its store Update, every
\* volume with a deletion timestamp whose status handle is among the disks of
\* the GetVM response has had RemoveDevice sent for that handle (the disk has
\* left the VM), and the status entry stored for it is kept with state
\* Prepared, which is what lets the next pass of reconcileVolumes run the
\* plugin's Delete and drop the volume.
C31_RemovedDiskIsPrepared ==
    [][ \A w \in Workers :
          (pc[w] = "disks" /\ pc'[w] = "nicsattach" /\ restarts' = restarts)
          => LET m == mach[w]
             IN \A i \in 1..Len(m.vols) :
                   LET status == getVolumeStatus(m.vstat, m.vols[i].name)
                   IN (m.vols[i].del /\ status.handle \in vminfo[w].disks)
                      => /\ << "AttachDetachDisk", m.sock >> \in calls'[w]
                         /\ status.handle \notin vm'[m.sock].disks
                         /\ HasStatus(store'[m.id].vstat, m.vols[i].name)
                         /\ getVolumeStatus(store'[m.id].vstat, m.vols[i].name).state = "Prepared"
      ]_vars

(***************************************************************************)
(* attachDetachNICs on every input: a stored machine with a created,       *)
(* running VM, a worker that has reached attachDetachNICs in its pass, and  *)
(* every combination of deletion timestamp, recorded state and presence    *)
(* among the devices of the VM for the NICs; the workers go on from there. *)
(***************************************************************************)
NicLoopNames == << "n1", "n2" >>
NicLoopStates == { "none", "Pending", "Prepared", "Attached" }

NicLoopScenario ==
    [ ids |-> { << "id", 1 >> }, reqs |-> {}, leftover |-> {}, faults |-> MaxFaults,
      events |-> {}, plugin |-> "isolated" ]

\* the machine record: NIC i has deletion timestamp del[i] and state st[i]
NicLoopMachine(del, st) ==
    [ id |-> << "id", 1 >>, del |-> FALSE, fin |-> { MachineFinalizer },
      sock |-> << "sock", 1 >>, power |-> PowerStatePowerOn, vols |-> << >>,
      nics |-> [ i \in 1..Len(NicLoopNames) |-> [ name |-> NicLoopNames[i], del |-> del[i] ] ],
      vstat |-> << >>,
      nstat |-> SelectSeq([ i \in 1..Len(NicLoopNames) |->
                              [ name |-> NicLoopNames[i], state |-> st[i] ] ],
                          LAMBDA x : x.state # "none"),
      state |-> "Running", image |-> "", latest |-> TRUE ]

InitNicLoop ==
    \E del \in [ 1..Len(NicLoopNames) -> BOOLEAN ],
       st \in [ 1..Len(NicLoopNames) -> NicLoopStates ],
       live \in SUBSET { NicLoopNames[i] : i \in 1..Len(NicLoopNames) } :
       LET m == NicLoopMachine(del, st)
           v == [ created |-> TRUE, running |-> TRUE, uuid |-> m.id, disks |-> {},
                  devs |-> { getNicID(n) : n \in live } ]
       IN /\ store = [ x \in { m.id } |-> Rec(m) ]
          /\ created = { m.id }
          /\ wq = [ queue |-> << >>, dirty |-> {}, processing |-> { m.id },
                    shuttingDown |-> FALSE ]
          /\ delayed = {}
          /\ pc = [ w \in Workers |-> IF w = 1 THEN "nicsattach" ELSE "idle" ]
          /\ wid = [ w \in Workers |-> IF w = 1 THEN m.id ELSE NoId ]
          /\ mach = [ w \in Workers |-> IF w = 1 THEN m ELSE NoMachine ]
          /\ err = [ w \in Workers |-> FALSE ]
          /\ vminfo = [ w \in Workers |-> IF w = 1 THEN v ELSE NoVm ]
          /\ calls = [ w \in Workers |->
                         IF w = 1 THEN { << "Ping", m.sock >>, << "GetVM", m.sock >> } ELSE {} ]
          /\ scenario = NicLoopScenario
          /\ vm = [ s \in Sockets |-> IF s = m.sock THEN v ELSE NoVm ]
          /\ free = Sockets \ { m.sock }
          /\ dirs = { m.id }
          /\ volDirs = {}
          /\ nicDirs = { << m.id, m.nics[i].name >> : i \in 1..Len(m.nics) }
          /\ qmpNodes = {}
          /\ qmpExports = {}
          /\ faults = 0
          /\ held = [ w \in Workers |-> FALSE ]
          /\ restarts = 0
          /\ reply = NoReply
          /\ imageCache = [ r \in ImageRefs |-> "none" ]
          /\ nicStore = << >>
          /\ nicCopy = [ w \in Workers |-> NoNic ]

\* the steps of the passes of a machine that has its finalizer, its socket
\* and its VM
NicLoopStep(w) ==
    \/ ProcessGet(w)
    \/ IdMuLock(w)
    \/ Fetch(w)
    \/ Ping(w)
    \/ ReconcileVolumes(w)
    \/ ReconcileNics(w)
    \/ GetVM(w)
    \/ Power(w)
    \/ AttachDetachDisks(w)
    \/ AttachDetachNICs(w)
    \/ UpdateStatus(w)
    \/ ProcessDone(w)

NextNicLoop ==
    \/ \E w \in Workers : NicLoopStep(w)
    \/ \E id \in Machines : DelayedAdd(id)

FairnessNicLoop ==
    /\ \A w \in Workers : WF_vars(NicLoopStep(w))
    /\ \A id \in Machines : WF_vars(DelayedAdd(id))

SpecNicLoop == InitNicLoop /\ [][NextNicLoop]_vars /\ FairnessNicLoop


\* C32: attachDetachNICs follows the disk pattern, keyed by the NIC name
\* decoded from the device id. In a run of the loop, AddNIC puts a device
\* into the VM only for a NIC without deletion timestamp that is not among
\* the live devices and whose state is Prepared, and a run that reaches its
\* store Update has added every such NIC and stored it as Attached;
\* RemoveNIC takes a device out only for a NIC with a deletion timestamp that
\* is among the live devices, a run that reaches its Update has removed
\* every such NIC, and after every removal (also in a run that fails later)
\* the machine id is in the queue again. A NIC that has a deletion timestamp
\* eventually leaves the stored spec and its plugin directory is deleted.
C32_NicLoopPattern ==
    /\ [][ \A w \in Workers :
             (pc[w] = "nicsattach" /\ pc'[w] # "nicsattach" /\ restarts' = restarts)
             => LET m == mach[w]
                    cur == NicNames(vminfo[w])
                    old == IF m.sock \in instances THEN vm[m.sock].devs ELSE {}
                    new == IF m.sock \in instances THEN vm'[m.sock].devs ELSE {}
                IN \A i \in 1..Len(m.nics) :
                      LET nic == m.nics[i]
                          status == getNICStatus(m.nstat, nic.name)
                          dev == getNicID(nic.name)
                          toAdd == ~nic.del /\ status.name \notin cur /\ status.state = "Prepared"
                          toRemove == nic.del /\ status.name \in cur
                      IN /\ (dev \in new \ old) => toAdd
                         /\ (dev \in old \ new) => toRemove /\ m.id \in wq'.dirty
                         /\ pc'[w] = "status"
                               => /\ toAdd => /\ dev \in new
                                              /\ getNICStatus(store'[m.id].nstat, nic.name).state = "Attached"
                                  /\ toRemove => dev \notin new /\ m.id \in wq'.dirty
         ]_vars
    /\ \A id \in Machines, n \in { NicLoopNames[i] : i \in 1..Len(NicLoopNames) } :
          (id \in DOMAIN store /\ \E i \in 1..Len(store[id].nics) :
                                     store[id].nics[i].name = n /\ store[id].nics[i].del)
          ~> (/\ id \in DOMAIN store => \A i \in 1..Len(store[id].nics) : store[id].nics[i].name # n
              /\ << id, n >> \notin nicDirs)

\* a run of the loop has removed one NIC and added the other, which is now
\* recorded as Attached, and the machine is queued for the follow-up pass
C32_Witness ==
    \E w \in Workers :
        /\ pc[w] = "status"
        /\ wid[w] \in wq.dirty
        /\ vm[mach[w].sock].devs = { getNicID(NicLoopNames[2]) }
        /\ vminfo[w].devs = { getNicID(NicLoopNames[1]) }
        /\ mach[w].nics[1].del
        /\ getNICStatus(mach[w].nstat, NicLoopNames[2]).state = "Attached"

(***************************************************************************)
(* Power intent: one machine without devices, created with power On or     *)
(* Off, whose power intent the client changes while the workers run.       *)
(***************************************************************************)
PlainOffRequest == [ power |-> PowerStatePowerOff, vols |-> << >>, nics |-> << >> ]

PowerScenario ==
    [ ids |-> { << "id", 1 >> }, reqs |-> { PlainRequest, PlainOffRequest }, leftover |-> {},
      faults |-> MaxFaults, events |-> { "power" }, plugin |-> "isolated" ]

InitPower == InitOf(PowerScenario)

\* UpdateMachinePower: store Get, Spec.Power, store Update (the store event
\* reaches queue.Add)
UpdateMachinePower(id, power) ==
    /\ UNCHANGED held
    /\ "power" \in scenario.events
    /\ Stored(id)
    /\ store[id].power # power
    /\ store' = [ store EXCEPT ![id].power = power ]
    /\ mach' = Outdate(id, 0)
    /\ wq' = QAdd(wq, id)
    /\ UNCHANGED << created, delayed, faults >>
    /\ UNCHANGED workerVars
    /\ UNCHANGED << free, vm, dirs, volDirs, nicDirs, qmpNodes, qmpExports, restarts,
                    reply, imageCache, nicStore, nicCopy, scenario >>

\* the steps of the passes of a machine without image that is not deleted
PowerStep(w) ==
    \/ ProcessGet(w)
    \/ IdMuLock(w)
    \/ Fetch(w)
    \/ AddFinalizer(w)
    \/ GetFreeApiSocket(w)
    \/ PersistSocket(w)
    \/ Ping(w)
    \/ ReconcileVolumes(w)
    \/ ReconcileNics(w)
    \/ GetVM(w)
    \/ CreateVM(w)
    \/ Power(w)
    \/ AttachDetachDisks(w)
    \/ AttachDetachNICs(w)
    \/ UpdateStatus(w)
    \/ ProcessDone(w)

NextPower ==
    \/ \E id \in Machines, req \in { PlainRequest, PlainOffRequest } :
          CreateMachine(id, req, ValidShape)
    \/ \E id \in Machines, power \in { PowerStatePowerOn, PowerStatePowerOff } :
          UpdateMachinePower(id, power)
    \/ \E id \in Machines : DelayedAdd(id)
    \/ \E w \in Workers : PowerStep(w)

SpecPower == InitPower /\ [][NextPower]_vars

PowerOps == { "PowerOn", "PowerOff" }
PowerSent(c) == { x \in c : x[1] \in PowerOps }

\* C33: at the power switch of reconcileMachine (GetVM succeeded, the UUID
\* matches): with power On and a VM that is not Running the pass sends Boot,
\* once and nothing else; with power Off and a Running VM it sends Shutdown,
\* once and nothing else; otherwise it sends no power call and goes on. A
\* power call that fails ends the pass with an error and leaves the store as
\* it was. Power calls are sent nowhere else in the pass, and a pass that
\* completes stores Status.State Running for power On and Terminated for
\* power Off.
C33_PowerIntent ==
    [][ \A w \in Workers :
          /\ (pc[w] = "power" /\ pc'[w] # "power")
             => LET m == mach[w]
                    on == m.power = PowerStatePowerOn /\ ~vminfo[w].running
                    off == m.power = PowerStatePowerOff /\ vminfo[w].running
                IN /\ PowerSent(calls[w]) = {}
                   /\ on => PowerSent(calls'[w]) = { << "PowerOn", m.sock >> }
                   /\ off => PowerSent(calls'[w]) = { << "PowerOff", m.sock >> }
                   /\ (~on /\ ~off) => calls' = calls /\ vm' = vm /\ pc'[w] = "disks" /\ ~err'[w]
                   /\ pc'[w] = "disks" /\ on => vm'[m.sock].running
                   /\ pc'[w] = "disks" /\ off => ~vm'[m.sock].running
                   /\ pc'[w] # "disks" => pc'[w] = "done" /\ err'[w] /\ store' = store /\ vm' = vm
          /\ pc[w] # "power" => PowerSent(calls'[w]) \subseteq PowerSent(calls[w])
          /\ (pc[w] = "status" /\ pc'[w] = "done" /\ ~err'[w])
             => /\ wid[w] \in DOMAIN store'
                /\ store'[wid[w]].state =
                      IF mach[w].power = PowerStatePowerOn THEN "Running" ELSE "Terminated"
      ]_vars

\* a pass has just sent Shutdown to the running VM of a machine whose power
\* intent is Off
C33_Witness ==
    \E w \in Workers :
        /\ pc[w] = "disks"
        /\ mach[w].power = PowerStatePowerOff
        /\ << "PowerOff", mach[w].sock >> \in calls[w]
        /\ vminfo[w].running
        /\ ~vm[mach[w].sock].running

(***************************************************************************)
(* QMP.Mount and QMP.Unmount of the Ceph plugin, one step per command sent  *)
(* to the qemu-storage-daemon. The callers are the workers; pc is the       *)
(* position inside the call, wid the machineID argument, mach[w].vols the   *)
(* volume argument (both are dropped when the call returns), reply the      *)
(* result of the call that returned last; the position says which command  *)
(* the call sends next. The daemon refuses blockdev-add for a               *)
(* node name it has, block-export-add for an export id it has, and          *)
(* blockdev-del for a node that is exported.                                *)
(***************************************************************************)
QmpHandles == { "h1", "v1" }

QmpScenario ==
    [ ids |-> { << "id", 1 >> }, reqs |-> {}, leftover |-> {}, faults |-> MaxFaults,
      events |-> {}, plugin |-> "isolated" ]

InitQmp == InitOf(QmpScenario)

\* the volume argument of the call worker w is in: its handle (Mount) or the
\* volumeID (Unmount)
QmpKey(w) == mach[w].vols[1].handle

\* q.volumeDir(machineID, handle) and the socket path inside it
QmpVolumeDir(id, handle) == << id, "ceph", handle >>
QmpSocketPath(id, handle) == << id, "ceph", handle, "socket" >>

QmpReturn(w, op, failed) ==
    /\ pc' = [ pc EXCEPT ![w] = "idle" ]
    /\ wid' = [ wid EXCEPT ![w] = NoId ]
    /\ mach' = [ mach EXCEPT ![w] = NoMachine ]
    /\ reply' = [ op |-> op, id |-> wid[w], key |-> QmpKey(w), err |-> failed,
                  path |-> IF op = "Mount" /\ ~failed
                           THEN QmpSocketPath(wid[w], QmpKey(w)) ELSE << >> ]

QmpGoto(w, p) == pc' = [ pc EXCEPT ![w] = p ] /\ UNCHANGED << reply, wid, mach >>

QmpUnchanged ==
    UNCHANGED << store, created, wq, delayed, err, vminfo, calls, free, vm, dirs, nicDirs,
                 held, restarts, imageCache, nicStore, nicCopy, scenario >>

\* Mount: MkdirAll of the volume directory and createCephConf
QmpMount(w, id, handle) ==
    /\ pc[w] = "idle"
    /\ id \in scenario.ids
    /\ \/ /\ volDirs' = volDirs \cup { QmpVolumeDir(id, handle) }
          /\ wid' = [ wid EXCEPT ![w] = id ]
          /\ mach' = [ mach EXCEPT ![w] =
                         [ NoMachine EXCEPT !.id = id,
                                            !.vols = << [ CephVolume EXCEPT !.handle = handle ] >> ] ]
          /\ pc' = [ pc EXCEPT ![w] = "m_node" ]
          /\ UNCHANGED << reply, faults >>
       \/ /\ Fault
          /\ reply' = [ op |-> "Mount", id |-> id, key |-> handle, err |-> TRUE, path |-> << >> ]
          /\ UNCHANGED << pc, wid, mach, volDirs >>
    /\ UNCHANGED << qmpNodes, qmpExports >>
    /\ QmpUnchanged

\* (a Mount that adds the block node without looking at the query's answer)
MountAfterQueryNodeAlwaysAdd(found) == "m_addnode"

\* where Mount goes on after query-named-block-nodes
MountAfterQueryNode(found) == IF found THEN "m_export" ELSE "m_addnode"

\* where Mount goes on after query-block-exports
MountAfterQueryExport(found) == IF found THEN "return" ELSE "m_addexport"

\* queryBlockNode(ceph-<handle>)
QmpMountQueryNode(w) ==
    /\ pc[w] = "m_node"
    /\ \/ QmpGoto(w, MountAfterQueryNode(QmpKey(w) \in qmpNodes)) /\ UNCHANGED faults
       \/ Fault /\ QmpReturn(w, "Mount", TRUE)
    /\ UNCHANGED << volDirs, qmpNodes, qmpExports >>
    /\ QmpUnchanged

\* addBlockDev: blockdev-add; a command whose answer is lost may have been
\* carried out
QmpMountAddNode(w) ==
    /\ pc[w] = "m_addnode"
    /\ \/ /\ QmpKey(w) \notin qmpNodes
          /\ qmpNodes' = qmpNodes \cup { QmpKey(w) }
          /\ QmpGoto(w, "m_export")
          /\ UNCHANGED faults
       \/ /\ QmpKey(w) \in qmpNodes
          /\ QmpReturn(w, "Mount", TRUE)
          /\ UNCHANGED << qmpNodes, faults >>
       \/ /\ Fault
          /\ qmpNodes' \in { qmpNodes, qmpNodes \cup { QmpKey(w) } }
          /\ QmpReturn(w, "Mount", TRUE)
    /\ UNCHANGED << volDirs, qmpExports >>
    /\ QmpUnchanged

\* queryBlockExports(ceph-<handle>)
QmpMountQueryExport(w) ==
    /\ pc[w] = "m_export"
    /\ \/ /\ UNCHANGED faults
          /\ IF MountAfterQueryExport(QmpKey(w) \in qmpExports) = "return"
             THEN QmpReturn(w, "Mount", FALSE)
             ELSE QmpGoto(w, "m_addexport")
       \/ Fault /\ QmpReturn(w, "Mount", TRUE)
    /\ UNCHANGED << volDirs, qmpNodes, qmpExports >>
    /\ QmpUnchanged

\* exportBlockDev: block-export-add, then Mount returns the socket path
QmpMountAddExport(w) ==
    /\ pc[w] = "m_addexport"
    /\ \/ /\ QmpKey(w) \notin qmpExports /\ QmpKey(w) \in qmpNodes
          /\ qmpExports' = qmpExports \cup { QmpKey(w) }
          /\ QmpReturn(w, "Mount", FALSE)
          /\ UNCHANGED faults
       \/ /\ QmpKey(w) \in qmpExports \/ QmpKey(w) \notin qmpNodes
          /\ QmpReturn(w, "Mount", TRUE)
          /\ UNCHANGED << qmpExports, faults >>
       \/ /\ Fault
          /\ qmpExports' \in { qmpExports } \cup
                IF QmpKey(w) \in qmpNodes THEN { qmpExports \cup { QmpKey(w) } } ELSE {}
          /\ QmpReturn(w, "Mount", TRUE)
    /\ UNCHANGED << volDirs, qmpNodes >>
    /\ QmpUnchanged

\* Unmount(machineID, volumeID): nothing is done before the first query
QmpUnmount(w, id, volumeID) ==
    /\ pc[w] = "idle"
    /\ id \in scenario.ids
    /\ wid' = [ wid EXCEPT ![w] = id ]
    /\ mach' = [ mach EXCEPT ![w] =
                   [ NoMachine EXCEPT !.id = id,
                                      !.vols = << [ CephVolume EXCEPT !.name = volumeID,
                                                                      !.handle = volumeID ] >> ] ]
    /\ pc' = [ pc EXCEPT ![w] = "u_export" ]
    /\ UNCHANGED << reply, faults, volDirs, qmpNodes, qmpExports >>
    /\ QmpUnchanged

\* (an Unmount that goes on to the block node after a failed block-export-del)
UnmountAfterDelExportGoOn(ok) == "u_node"

\* where Unmount goes on after block-export-del
UnmountAfterDelExport(ok) == IF ok THEN "u_node" ELSE "return"

\* queryBlockExports(ceph-<volumeID>)
QmpUnmountQueryExport(w) ==
    /\ pc[w] = "u_export"
    /\ \/ /\ QmpGoto(w, IF QmpKey(w) \in qmpExports THEN "u_delexport" ELSE "u_node")
          /\ UNCHANGED faults
       \/ Fault /\ QmpReturn(w, "Unmount", TRUE)
    /\ UNCHANGED << volDirs, qmpNodes, qmpExports >>
    /\ QmpUnchanged

\* deleteExportBlockDev: block-export-del
QmpUnmountDelExport(w) ==
    /\ pc[w] = "u_delexport"
    /\ \/ /\ QmpKey(w) \in qmpExports
          /\ qmpExports' = qmpExports \ { QmpKey(w) }
          /\ QmpGoto(w, UnmountAfterDelExport(TRUE))
          /\ UNCHANGED faults
       \/ /\ \/ QmpKey(w) \notin qmpExports /\ UNCHANGED faults
             \/ Fault
          /\ UNCHANGED qmpExports
          /\ IF UnmountAfterDelExport(FALSE) = "return"
             THEN QmpReturn(w, "Unmount", TRUE)
             ELSE QmpGoto(w, UnmountAfterDelExport(FALSE))
    /\ UNCHANGED << volDirs, qmpNodes >>
    /\ QmpUnchanged

\* queryBlockNode(ceph-<volumeID>)
QmpUnmountQueryNode(w) ==
    /\ pc[w] = "u_node"
    /\ \/ /\ UNCHANGED faults
          /\ IF QmpKey(w) \in qmpNodes
             THEN QmpGoto(w, "u_delnode")
             ELSE QmpReturn(w, "Unmount", FALSE)
       \/ Fault /\ QmpReturn(w, "Unmount", TRUE)
    /\ UNCHANGED << volDirs, qmpNodes, qmpExports >>
    /\ QmpUnchanged

\* deleteBlockDev: blockdev-del, then Unmount returns nil
QmpUnmountDelNode(w) ==
    /\ pc[w] = "u_delnode"
    /\ \/ /\ QmpKey(w) \in qmpNodes /\ QmpKey(w) \notin qmpExports
          /\ qmpNodes' = qmpNodes \ { QmpKey(w) }
          /\ QmpReturn(w, "Unmount", FALSE)
          /\ UNCHANGED faults
       \/ /\ \/ (QmpKey(w) \notin qmpNodes \/ QmpKey(w) \in qmpExports) /\ UNCHANGED faults
             \/ Fault
          /\ UNCHANGED qmpNodes
          /\ QmpReturn(w, "Unmount", TRUE)
    /\ UNCHANGED << volDirs, qmpExports >>
    /\ QmpUnchanged

NextQmp ==
    \/ \E w \in Workers, id \in Machines, handle \in QmpHandles : QmpMount(w, id, handle)
    \/ \E w \in Workers : QmpMountQueryNode(w)
    \/ \E w \in Workers : QmpMountAddNode(w)
    \/ \E w \in Workers : QmpMountQueryExport(w)
    \/ \E w \in Workers : QmpMountAddExport(w)
    \/ \E w \in Workers, id \in Machines, volumeID \in QmpHandles : QmpUnmount(w, id, volumeID)
    \/ \E w \in Workers : QmpUnmountQueryExport(w)
    \/ \E w \in Workers : QmpUnmountDelExport(w)
    \/ \E w \in Workers : QmpUnmountQueryNode(w)
    \/ \E w \in Workers : QmpUnmountDelNode(w)

SpecQmp == InitQmp /\ [][NextQmp]_vars

QmpMountReturned(w) == pc[w] \in { "m_node", "m_addnode", "m_export", "m_addexport" } /\ pc'[w] = "idle"
QmpUnmountReturned(w) == pc[w] \in { "u_export", "u_delexport", "u_node", "u_delnode" } /\ pc'[w] = "idle"

\* C34: Mount is idempotent against the daemon. Its queries change nothing;
\* it goes on to blockdev-add only after query-named-block-nodes did not list
\* ceph-<handle> and skips it otherwise, and to block-export-add only after
\* query-block-exports did not list the export and returns otherwise; a node
\* or export comes into being only by the add of a Mount for that handle; a
\* Mount that returns without error leaves the node and the export of its
\* handle in the daemon (each at most once: the daemon keeps one per name),
\* the volume directory on disk, and returns the socket path in the volume
\* directory of its machine and handle, whatever happened in earlier Mounts.
C34_MountIdempotent ==
    /\ [](qmpExports \subseteq qmpNodes)
    /\ [][ \A w \in Workers :
             /\ (pc[w] = "m_node" /\ pc'[w] # pc[w])
                => /\ qmpNodes' = qmpNodes /\ qmpExports' = qmpExports
                   /\ faults' = faults
                      => pc'[w] = IF QmpKey(w) \in qmpNodes THEN "m_export" ELSE "m_addnode"
             /\ (pc[w] = "m_export" /\ pc'[w] # pc[w])
                => /\ qmpNodes' = qmpNodes /\ qmpExports' = qmpExports
                   /\ faults' = faults
                      => IF QmpKey(w) \in qmpExports
                         THEN pc'[w] = "idle" /\ ~reply'.err
                         ELSE pc'[w] = "m_addexport"
             /\ (pc'[w] = "m_addnode" /\ pc[w] # pc'[w])
                => pc[w] = "m_node" /\ QmpKey(w) \notin qmpNodes
             /\ (pc'[w] = "m_addexport" /\ pc[w] # pc'[w])
                => pc[w] = "m_export" /\ QmpKey(w) \notin qmpExports
             /\ QmpMountReturned(w)
                => /\ reply'.op = "Mount" /\ reply'.key = QmpKey(w)
                   /\ ~reply'.err
                      => /\ QmpKey(w) \in qmpNodes' /\ QmpKey(w) \in qmpExports'
                         /\ QmpVolumeDir(wid[w], QmpKey(w)) \in volDirs'
                         /\ reply'.path = QmpSocketPath(wid[w], QmpKey(w))
         ]_vars
    /\ [][ /\ \A k \in qmpNodes' \ qmpNodes :
                \E w \in Workers : pc[w] = "m_addnode" /\ QmpKey(w) = k /\ pc'[w] # pc[w]
           /\ \A k \in qmpExports' \ qmpExports :
                \E w \in Workers : pc[w] = "m_addexport" /\ QmpKey(w) = k /\ pc'[w] # pc[w]
         ]_vars

\* a Mount has failed after its blockdev-add, and the Mount that is tried
\* again for the same handle has found the node and skipped blockdev-add
C34_Witness ==
    \E w \in Workers :
        /\ pc[w] = "m_export"
        /\ reply.op = "Mount" /\ reply.err /\ reply.key = QmpKey(w)
        /\ QmpKey(w) \in qmpNodes
        /\ QmpKey(w) \notin qmpExports
        /\ \A x \in Workers \ { w } : pc[x] = "idle"

\* C35: Unmount deletes in reverse order. Its queries change nothing; it
\* sends block-export-del only when the export is listed and goes straight to
\* the node otherwise; it reaches the node query only with the export gone,
\* so a block-export-del that fails ends the call with an error before any
\* blockdev-del; it sends blockdev-del only when the node is listed and
\* returns without error otherwise, which makes an Unmount of something
\* already unmounted succeed; an export or node disappears only by the delete
\* of an Unmount for that id, and an Unmount that returns without error
\* leaves neither export nor node of its id.
C35_UnmountReverseOrder ==
    /\ [][ \A w \in Workers :
             /\ (pc[w] = "u_export" /\ pc'[w] # pc[w])
                => /\ qmpNodes' = qmpNodes /\ qmpExports' = qmpExports
                   /\ faults' = faults
                      => pc'[w] = IF QmpKey(w) \in qmpExports THEN "u_delexport" ELSE "u_node"
             /\ (pc[w] = "u_delexport" /\ pc'[w] # pc[w])
                => /\ qmpNodes' = qmpNodes
                   /\ IF QmpKey(w) \in qmpExports /\ QmpKey(w) \notin qmpExports'
                      THEN pc'[w] = "u_node"
                      ELSE pc'[w] = "idle" /\ reply'.op = "Unmount" /\ reply'.err
                                           /\ qmpExports' = qmpExports
             /\ (pc'[w] = "u_node" /\ pc[w] # pc'[w])
                => pc[w] \in { "u_export", "u_delexport" } /\ QmpKey(w) \notin qmpExports'
             /\ (pc[w] = "u_node" /\ pc'[w] # pc[w])
                => /\ qmpNodes' = qmpNodes /\ qmpExports' = qmpExports
                   /\ faults' = faults
                      => IF QmpKey(w) \in qmpNodes
                         THEN pc'[w] = "u_delnode"
                         ELSE pc'[w] = "idle" /\ reply'.op = "Unmount" /\ ~reply'.err
             /\ (pc'[w] = "u_delnode" /\ pc[w] # pc'[w])
                => pc[w] = "u_node" /\ QmpKey(w) \in qmpNodes
             /\ QmpUnmountReturned(w)
                => /\ reply'.op = "Unmount" /\ reply'.key = QmpKey(w)
                   /\ ~reply'.err
                      => QmpKey(w) \notin qmpNodes' /\ QmpKey(w) \notin qmpExports'
         ]_vars
    /\ [][ /\ \A k \in qmpExports \ qmpExports' :
                \E w \in Workers : pc[w] = "u_delexport" /\ QmpKey(w) = k /\ pc'[w] # pc[w]
           /\ \A k \in qmpNodes \ qmpNodes' :
                \E w \in Workers : pc[w] = "u_delnode" /\ QmpKey(w) = k /\ pc'[w] # pc[w]
         ]_vars

\* an Unmount has returned without error, and the Unmount of the same id that
\* follows it has found neither export nor node and is about to return
C35_Witness ==
    \E w \in Workers :
        /\ pc[w] = "u_node"
        /\ reply.op = "Unmount" /\ ~reply.err /\ reply.key = QmpKey(w)
        /\ QmpKey(w) \notin qmpNodes
        /\ QmpKey(w) \notin qmpExports
        /\ QmpVolumeDir(wid[w], QmpKey(w)) \in volDirs
        /\ \A x \in Workers \ { w } : pc[x] = "idle"

(***************************************************************************)
(* C36: for every Ceph volume, Apply followed by the plugin's Delete as    *)
(* the reconciler calls it leaves no block node, no export and no volume   *)
(* directory of that volume: whenever deleteMachine has run the volume     *)
(* plugins' Delete for every volume of the record without an error, the    *)
(* node, the export and the directory that Apply made for each Ceph volume *)
(* of the record are gone.                                                 *)
(***************************************************************************)
C36_DeleteUndoesApply ==
    [][\A w \in Workers :
          (pc[w] = "del_plugins" /\ pc'[w] = "del_free") =>
             \A i \in 1..Len(mach[w].vols) :
                LET v == mach[w].vols[i]
                IN v.kind = "ceph" =>
                      /\ ApplyKey(v) \notin qmpNodes'
                      /\ ApplyKey(v) \notin qmpExports'
                      /\ << mach[w].id, "ceph", ApplyKey(v) >> \notin volDirs']_vars

(***************************************************************************)
(* NIC device ids as texts.  The manager builds the id of a NIC device     *)
(* with fmt.Sprintf("%s//%s", "NIC", nicName) and the reconciler takes it  *)
(* apart with strings.Split(id, "//"); getNicID and getNicName above are   *)
(* these two functions on names that hold no "//".  Here a text is a       *)
(* sequence of characters and both functions work on it as the library     *)
(* calls do.                                                               *)
(***************************************************************************)
MaxNameLen == 4
MaxDeviceIdLen == 6
NameChars == { "a", "/" }
DeviceIdChars == { "N", "I", "C", "/", "a" }

TextsOver(chars, n) == UNION { [ 1..k -> chars ] : k \in 0..n }
NicNameTexts == TextsOver(NameChars, MaxNameLen)
DeviceIdTexts == TextsOver(DeviceIdChars, MaxDeviceIdLen)

NicPrefixText == << "N", "I", "C" >>
NicDelimiterText == << "/", "/" >>

\* strings.Index: the first position where sep starts in s, 0 if nowhere
TextIndex(s, sep) ==
    IF \E i \in 1..(Len(s) - Len(sep) + 1) : SubSeq(s, i, i + Len(sep) - 1) = sep
    THEN CHOOSE i \in 1..(Len(s) - Len(sep) + 1) :
            /\ SubSeq(s, i, i + Len(sep) - 1) = sep
            /\ \A j \in 1..(i - 1) : SubSeq(s, j, j + Len(sep) - 1) # sep
    ELSE 0

\* strings.Split for a separator that is not empty: cut at the first
\* occurrence, go on behind it
RECURSIVE TextSplit(_, _)
TextSplit(s, sep) ==
    LET i == TextIndex(s, sep)
    IN IF i = 0
       THEN << s >>
       ELSE << SubSeq(s, 1, i - 1) >> \o TextSplit(SubSeq(s, i + Len(sep), Len(s)), sep)

\* a *string: nil, or a pointer to a text
NilText == [ nil |-> TRUE, text |-> << >> ]
PtrText(t) == [ nil |-> FALSE, text |-> t ]

\* Manager: getNicID
getNicIDText(nicName) == NicPrefixText \o NicDelimiterText \o nicName

\* reconciler: getNicName
getNicNameText(id) ==
    LET parts == TextSplit(id, NicDelimiterText)
    IN IF Len(parts) # 2
       THEN NilText
       ELSE IF parts[1] # NicPrefixText
            THEN NilText
            ELSE PtrText(parts[2])

NicIdScenario == [ ids |-> { << "id", 1 >> }, reqs |-> {}, leftover |-> {}, faults |-> 0, events |-> {}, plugin |-> "isolated" ]

\* the inputs: a NIC name the manager is given, or the id of a device the
\* hypervisor lists
NicIdInputs ==
    { [ op |-> "name", name |-> n, id |-> << >>, res |-> NilText ] : n \in NicNameTexts }
       \cup { [ op |-> "device", name |-> << >>, id |-> d, res |-> NilText ] : d \in DeviceIdTexts }

InitNicId ==
    /\ store = << >>
    /\ created = {}
    /\ wq = [ queue |-> << >>, dirty |-> {}, processing |-> {}, shuttingDown |-> FALSE ]
    /\ delayed = {}
    /\ pc = [ w \in Workers |-> "idle" ]
    /\ wid = [ w \in Workers |-> NoId ]
    /\ mach = [ w \in Workers |-> NoMachine ]
    /\ err = [ w \in Workers |-> FALSE ]
    /\ vminfo = [ w \in Workers |-> NoVm ]
    /\ calls = [ w \in Workers |-> {} ]
    /\ scenario = NicIdScenario
    /\ vm = [ s \in Sockets |-> NoVm ]
    /\ free = Sockets
    /\ dirs = {}
    /\ volDirs = {}
    /\ nicDirs = {}
    /\ qmpNodes = {}
    /\ qmpExports = {}
    /\ faults = 0
    /\ held = [ w \in Workers |-> FALSE ]
    /\ restarts = 0
    /\ reply \in NicIdInputs
    /\ imageCache = [ r \in ImageRefs |-> "none" ]
    /\ nicStore = << >>
    /\ nicCopy = [ w \in Workers |-> NoNic ]

NicIdUnchanged ==
    UNCHANGED << store, created, wq, delayed, pc, wid, mach, err, vminfo, calls, free, vm,
                 dirs, volDirs, nicDirs, qmpNodes, qmpExports, faults, held, restarts,
                 imageCache, nicStore, nicCopy, scenario >>

\* Manager.CreateVM / AddNIC: the device is sent with Id getNicID(nic.Name)
ManagerGetNicID ==
    /\ reply.op = "name"
    /\ reply' = [ reply EXCEPT !.op = "sent", !.id = getNicIDText(reply.name) ]
    /\ NicIdUnchanged

\* attachDetachNICs: getNicName of the id of a device of the VM
ReconcilerGetNicName ==
    /\ reply.op \in { "sent", "device" }
    /\ reply' = [ reply EXCEPT !.op = IF reply.op = "sent" THEN "correlated" ELSE "looked",
                               !.res = getNicNameText(reply.id) ]
    /\ NicIdUnchanged

NextNicId == ManagerGetNicID \/ ReconcilerGetNicName

SpecNicId == InitNicId /\ [][NextNicId]_vars

(***************************************************************************)
(* C37: the NIC device-id encoding round-trips: for every NIC name n,      *)
(* getNicName applied to getNicID(n) returns n, and getNicName returns nil *)
(* for every device id that getNicID did not produce.                      *)
(***************************************************************************)
C37_NicIdRoundTrip ==
    /\ reply.op = "correlated" => reply.res = PtrText(reply.name)
    /\ reply.op = "looked" =>
          (reply.res.nil <=> ~ \E n \in DeviceIdTexts : getNicIDText(n) = reply.id)

(***************************************************************************)
(* NIC records.  In the first version of the controllers a NIC is a record *)
(* of its own in the NIC store, `NIC--<machineID>--<nicName>`: the machine *)
(* reconciler creates it, marks it deleted and puts MachineFinalizer on it *)
(* when it hands the device to the VM; the NIC reconciler puts             *)
(* NetworkInterfaceFinalizer on it, applies the NIC plugin and, once the   *)
(* record has a deletion timestamp, deletes the plugin resource and drops  *)
(* its finalizer.  Worker 1 is a worker of the machine reconciler, worker  *)
(* 2 one of the NIC reconciler; the ids hold no "--".                      *)
(***************************************************************************)
NetworkInterfaceFinalizer == "nic"
MachineWorker == 1
NicWorker == 2

\* machine_controller getNicID(machineID, nicName), getMachineNameFromNicID
getNicRecordID(machineID, nicName) == << "nic", machineID, nicName >>
getMachineNameFromNicID(id) == id[2]

\* the device ids of the first manager: CreateVM sends nic.ID, AddNIC the
\* NIC name alone, which the reconciler's getNicName does not recognise
NicRecordDevice(nicID) == << "NIC", 0, nicID[3] >>
NicNameDevice(nicID) == << "name", 0, nicID[3] >>

\* the VMM that InitVMM started for the machine
VmmOf(id) == << "sock", id[2] >>

NicRecordScenario ==
    [ ids |-> { << "id", 1 >> }, reqs |-> { PlainRequest, NicRequest }, leftover |-> {},
      faults |-> MaxFaults, events |-> { "attach", "detach" }, plugin |-> "isolated" ]

InitNicRecords == InitOf(NicRecordScenario)

NicStored(id) == id \in DOMAIN nicStore
NicRec(n) == [ f \in (DOMAIN n) \ {"latest"} |-> n[f] ]
NicCopyOf(id) == [ f \in DOMAIN nicStore[id] \cup {"latest"} |->
                     IF f = "latest" THEN TRUE ELSE nicStore[id][f] ]
NicStorePut(n) ==
    [ x \in DOMAIN nicStore \cup {n.id} |-> IF x = n.id THEN NicRec(n) ELSE nicStore[x] ]
NicStoreRemove(id) == [ x \in DOMAIN nicStore \ {id} |-> nicStore[x] ]

\* nics.Update: as the machine store
NicUpdateResult(n) ==
    IF ~NicStored(n.id) THEN "ErrNotFound"
    ELSE IF ~n.latest THEN "ErrResourceVersionNotLatest"
    ELSE "ok"
NicStoreAfterUpdate(n) ==
    IF n.del /\ n.fin = {} THEN NicStoreRemove(n.id) ELSE NicStorePut(n)

\* a write of the NIC store by worker w: the other worker's copy is no
\* longer the latest, and the machine reconciler's NIC event handler adds
\* the machine of the record to its queue
NicOutdate(id, w) ==
    [ x \in Workers |->
        IF x # w /\ nicCopy[x].id = id THEN [ nicCopy[x] EXCEPT !.latest = FALSE ]
        ELSE nicCopy[x] ]
NicEvent(q, id) == QAdd(q, getMachineNameFromNicID(id))

\* the NIC record the machine reconciler creates for a NIC of the spec
NewNicRecord(id) ==
    [ id |-> id, del |-> FALSE, fin |-> {}, state |-> "Pending", latest |-> TRUE ]

\* the NIC plugin's Apply: MkdirAll of the NIC directory, then the state it
\* reports (apinet: Attached; isolated: Pending)
NicPluginStates == { "Attached", "Pending" }
NicPluginDir(id) == << getMachineNameFromNicID(id), id[3] >>

(***************************************************************************)
(* The NIC reconciler: reconcileNetworkInterface and deleteNic, one store  *)
(* or plugin call per step.                                                *)
(***************************************************************************)
NicReturn(w) ==
    /\ pc' = [ pc EXCEPT ![w] = "idle" ]
    /\ nicCopy' = [ nicCopy EXCEPT ![w] = NoNic ]

NicRecordsUnchanged ==
    UNCHANGED << store, created, delayed, wid, mach, err, vminfo, calls, free, vm, dirs,
                 volDirs, qmpNodes, qmpExports, held, restarts, reply, imageCache, scenario >>

\* what reconcileNetworkInterface does with the record it got
AfterNicGet(n) ==
    IF n.del
    THEN IF Cardinality(n.fin) > 1 THEN "idle" ELSE "n_delete"
    ELSE IF NetworkInterfaceFinalizer \notin n.fin THEN "n_fin"
    ELSE "n_apply"

\* nics.Get of a stored record
NicGet(w, id) ==
    /\ w = NicWorker
    /\ pc[w] = "idle"
    /\ NicStored(id)
    /\ LET n == NicCopyOf(id)
       IN /\ pc' = [ pc EXCEPT ![w] = AfterNicGet(n) ]
          /\ nicCopy' = [ nicCopy EXCEPT ![w] = IF AfterNicGet(n) = "idle" THEN NoNic ELSE n ]
    /\ UNCHANGED << nicStore, nicDirs, wq, faults >>
    /\ NicRecordsUnchanged

\* deleteNic: nothing to do without the own finalizer, else the plugin's Delete
NicPluginDelete(w) ==
    /\ pc[w] = "n_delete"
    /\ IF NetworkInterfaceFinalizer \notin nicCopy[w].fin
       THEN NicReturn(w) /\ UNCHANGED << nicDirs, faults >>
       ELSE \/ /\ nicDirs' = nicDirs \ { NicPluginDir(nicCopy[w].id) }
               /\ pc' = [ pc EXCEPT ![w] = "n_unfin" ]
               /\ UNCHANGED << nicCopy, faults >>
            \/ Fault /\ NicReturn(w) /\ UNCHANGED nicDirs
    /\ UNCHANGED << nicStore, wq >>
    /\ NicRecordsUnchanged

\* deleteNic: the Update that drops NetworkInterfaceFinalizer
NicDropFinalizer(w) ==
    /\ pc[w] = "n_unfin"
    /\ LET n == [ nicCopy[w] EXCEPT !.fin = @ \ { NetworkInterfaceFinalizer } ]
       IN IF NicUpdateResult(n) = "ok"
          THEN /\ nicStore' = NicStoreAfterUpdate(n)
               /\ wq' = NicEvent(wq, n.id)
               /\ pc' = [ pc EXCEPT ![w] = "idle" ]
               /\ nicCopy' = [ NicOutdate(n.id, w) EXCEPT ![w] = NoNic ]
          ELSE NicReturn(w) /\ UNCHANGED << nicStore, wq >>
    /\ UNCHANGED << nicDirs, faults >>
    /\ NicRecordsUnchanged

\* the Update that stores NetworkInterfaceFinalizer; the pass returns
NicAddFinalizer(w) ==
    /\ pc[w] = "n_fin"
    /\ LET n == [ nicCopy[w] EXCEPT !.fin = @ \cup { NetworkInterfaceFinalizer } ]
       IN IF NicUpdateResult(n) = "ok"
          THEN /\ nicStore' = NicStoreAfterUpdate(n)
               /\ wq' = NicEvent(wq, n.id)
               /\ pc' = [ pc EXCEPT ![w] = "idle" ]
               /\ nicCopy' = [ NicOutdate(n.id, w) EXCEPT ![w] = NoNic ]
          ELSE NicReturn(w) /\ UNCHANGED << nicStore, wq >>
    /\ UNCHANGED << nicDirs, faults >>
    /\ NicRecordsUnchanged

\* networkInterfacePlugin.Apply: the directory is made even if the call fails
NicPluginApply(w) ==
    /\ pc[w] = "n_apply"
    /\ nicDirs' = nicDirs \cup { NicPluginDir(nicCopy[w].id) }
    /\ \/ \E st \in NicPluginStates :
             /\ nicCopy' = [ nicCopy EXCEPT ![w].state = st ]
             /\ pc' = [ pc EXCEPT ![w] = "n_status" ]
             /\ UNCHANGED faults
       \/ Fault /\ NicReturn(w)
    /\ UNCHANGED << nicStore, wq >>
    /\ NicRecordsUnchanged

\* the Update that stores the status the plugin reported
NicUpdateStatus(w) ==
    /\ pc[w] = "n_status"
    /\ LET n == nicCopy[w]
       IN IF NicUpdateResult(n) = "ok"
          THEN /\ nicStore' = NicStoreAfterUpdate(n)
               /\ wq' = NicEvent(wq, n.id)
               /\ pc' = [ pc EXCEPT ![w] = "idle" ]
               /\ nicCopy' = [ NicOutdate(n.id, w) EXCEPT ![w] = NoNic ]
          ELSE NicReturn(w) /\ UNCHANGED << nicStore, wq >>
    /\ UNCHANGED << nicDirs, faults >>
    /\ NicRecordsUnchanged

NicReconcilerStep(w) ==
    \/ \E id \in DOMAIN nicStore : NicGet(w, id)
    \/ NicPluginDelete(w)
    \/ NicDropFinalizer(w)
    \/ NicAddFinalizer(w)
    \/ NicPluginApply(w)
    \/ NicUpdateStatus(w)

(***************************************************************************)
(* The machine reconciler of that version, as far as it touches the NIC    *)
(* records of its machine (reconcileMachine and reconcileNics with the     *)
(* NIC store); a machine of these histories has one NIC and no volume.     *)
(***************************************************************************)
V1Unchanged ==
    UNCHANGED << created, delayed, wid, calls, free, volDirs, nicDirs, qmpNodes, qmpExports,
                 held, restarts, reply, imageCache, scenario >>

\* AttachNetworkInterface: the NIC is appended to the spec of the machine;
\* the store event reaches queue.Add
AttachNetworkInterface(id, n) ==
    /\ "attach" \in scenario.events
    /\ Stored(id)
    /\ store[id].nics = << >>
    /\ store' = [ store EXCEPT ![id].nics = Append(@, n) ]
    /\ mach' = Outdate(id, 0)
    /\ wq' = QAdd(wq, id)
    /\ UNCHANGED << pc, err, vminfo, vm, dirs, faults, nicStore, nicCopy >>
    /\ V1Unchanged

\* the NIC record id of the one NIC of the worker's machine
V1NicId(w) == getNicRecordID(mach[w].id, mach[w].nics[1].name)

\* machines.Get, the finalizer, MakeMachineDirs, InitVMM and Ping
V1Fetch(w) ==
    /\ pc[w] = "fetch"
    /\ LET id == wid[w]
       IN IF ~Stored(id) \/ store[id].del
          THEN /\ Return(w, FALSE)
               /\ UNCHANGED << store, wq, mach, dirs, faults >>
          ELSE IF MachineFinalizer \notin store[id].fin
          THEN /\ store' = StorePut([ Copy(id) EXCEPT !.fin = @ \cup { MachineFinalizer } ])
               /\ mach' = Outdate(id, w)
               /\ wq' = QAdd(wq, id)
               /\ Return(w, FALSE)
               /\ UNCHANGED << dirs, faults >>
          ELSE /\ dirs' = dirs \cup { id }
               /\ \/ /\ mach' = [ mach EXCEPT ![w] = Copy(id) ]
                     /\ Goto(w, "v1_nics")
                     /\ UNCHANGED faults
                  \/ Fault /\ Return(w, TRUE) /\ UNCHANGED mach
               /\ UNCHANGED << store, wq >>
    /\ UNCHANGED << vminfo, vm, nicStore, nicCopy >>
    /\ V1Unchanged

\* the loop over Spec.NetworkInterfaces: nics.Get, and nics.Create for a
\* NIC without a record and without a deletion timestamp
V1GetNic(w) ==
    /\ pc[w] = "v1_nics"
    /\ LET m == mach[w]
           nid == V1NicId(w)
       IN IF m.nics = << >>
          THEN /\ Goto(w, "v1_update")
               /\ UNCHANGED << nicStore, nicCopy, wq, faults >>
          ELSE IF NicStored(nid)
          THEN /\ nicCopy' = [ nicCopy EXCEPT ![w] = NicCopyOf(nid) ]
               /\ Goto(w, IF m.nics[1].del THEN "v1_nicdel" ELSE "v1_update")
               /\ UNCHANGED << nicStore, wq, faults >>
          ELSE IF m.nics[1].del
          THEN /\ Goto(w, "v1_update")
               /\ UNCHANGED << nicStore, nicCopy, wq, faults >>
          ELSE \/ /\ nicStore' = NicStorePut(NewNicRecord(nid))
                  /\ nicCopy' = [ nicCopy EXCEPT ![w] = NewNicRecord(nid) ]
                  /\ wq' = NicEvent(wq, nid)
                  /\ Goto(w, "v1_update")
                  /\ UNCHANGED faults
               \/ Fault /\ Return(w, TRUE) /\ UNCHANGED << nicStore, nicCopy, wq >>
    /\ UNCHANGED << store, mach, vminfo, vm, dirs >>
    /\ V1Unchanged

\* nics.Delete of the record of a NIC with a deletion timestamp: a record
\* without finalizers is removed, one with finalizers gets its timestamp
V1DeleteNic(w) ==
    /\ pc[w] = "v1_nicdel"
    /\ LET nid == V1NicId(w)
       IN IF ~NicStored(nid)
          THEN /\ Return(w, TRUE)
               /\ UNCHANGED << nicStore, nicCopy, wq >>
          ELSE IF nicStore[nid].fin = {}
          THEN /\ nicStore' = NicStoreRemove(nid)
               /\ nicCopy' = NicOutdate(nid, 0)
               /\ wq' = NicEvent(wq, nid)
               /\ Goto(w, "v1_update")
          ELSE IF nicStore[nid].del
          THEN /\ Goto(w, "v1_update")
               /\ UNCHANGED << nicStore, nicCopy, wq >>
          ELSE /\ nicStore' = [ nicStore EXCEPT ![nid].del = TRUE ]
               /\ nicCopy' = NicOutdate(nid, 0)
               /\ wq' = NicEvent(wq, nid)
               /\ Goto(w, "v1_update")
    /\ UNCHANGED << store, mach, vminfo, vm, dirs, faults >>
    /\ V1Unchanged

\* machines.Update with the volume status
V1UpdateStatus(w) ==
    /\ pc[w] = "v1_update"
    /\ IF UpdateResult(mach[w]) = "ok"
       THEN /\ store' = StorePut(mach[w])
            /\ mach' = Outdate(mach[w].id, w)
            /\ wq' = QAdd(wq, mach[w].id)
            /\ Goto(w, "v1_getvm")
       ELSE /\ Return(w, TRUE)
            /\ UNCHANGED << store, mach, wq >>
    /\ UNCHANGED << vminfo, vm, dirs, faults, nicStore, nicCopy >>
    /\ V1Unchanged

\* nicsReady: every NIC record of the map is Attached
nicsReady(n) == n = NoNic \/ n.state = "Attached"

\* reconcileNics: what it does for the one NIC, given the devices of the VM
V1NicPlan(n, devs) ==
    IF n = NoNic THEN "done"
    ELSE IF NicRecordDevice(n.id) \in devs
    THEN IF n.del THEN "v1_remove" ELSE "done"
    ELSE IF n.del THEN "done" ELSE "v1_addfin2"

\* GetVM; for a VM that is there, PowerOn if it is not running
V1GetVM(w) ==
    /\ pc[w] = "v1_getvm"
    /\ LET v == vm[VmmOf(mach[w].id)]
       IN IF ~v.created
          THEN /\ IF nicsReady(nicCopy[w])
                  THEN Goto(w, "v1_create")
                  ELSE Return(w, FALSE)
               /\ UNCHANGED << vminfo, vm >>
          ELSE /\ vminfo' = [ vminfo EXCEPT ![w] = v ]
               /\ vm' = [ vm EXCEPT ![VmmOf(mach[w].id)].running = TRUE ]
               /\ IF V1NicPlan(nicCopy[w], v.devs) = "done"
                  THEN Return(w, FALSE)
                  ELSE Goto(w, V1NicPlan(nicCopy[w], v.devs))
    /\ UNCHANGED << store, wq, mach, dirs, faults, nicStore, nicCopy >>
    /\ V1Unchanged

\* Manager.CreateVM(machine, nics): the NICs of the map are the devices
V1CreateVM(w) ==
    /\ pc[w] = "v1_create"
    /\ LET s == VmmOf(mach[w].id)
       IN \/ /\ HvCreateOk(vm[s])
             /\ vm' = [ vm EXCEPT ![s] =
                          [ created |-> TRUE, running |-> FALSE, uuid |-> mach[w].id,
                            disks |-> {},
                            devs |-> IF nicCopy[w] = NoNic THEN {}
                                     ELSE { NicRecordDevice(nicCopy[w].id) } ] ]
             /\ Goto(w, "v1_addfin")
             /\ UNCHANGED faults
          \/ Fault /\ Return(w, TRUE) /\ UNCHANGED vm
    /\ UNCHANGED << store, wq, mach, vminfo, dirs, nicStore, nicCopy >>
    /\ V1Unchanged

\* addFinalizerToNIC
addFinalizerToNIC(n) == [ n EXCEPT !.fin = @ \cup { MachineFinalizer } ]
\* removeFinalizerFromNIC
removeFinalizerFromNIC(n) == [ n EXCEPT !.fin = @ \ { MachineFinalizer } ]

\* nics.Update by the machine reconciler with record n, then position p, or
\* the error return
V1NicUpdate(w, n, p) ==
    IF n = nicCopy[w]
    THEN /\ IF p = "done" THEN Return(w, FALSE) ELSE Goto(w, p)
         /\ UNCHANGED << nicStore, nicCopy, wq >>
    ELSE IF NicUpdateResult(n) = "ok"
    THEN /\ nicStore' = NicStoreAfterUpdate(n)
         /\ nicCopy' = [ NicOutdate(n.id, w) EXCEPT ![w] = n ]
         /\ wq' = NicEvent(wq, n.id)
         /\ IF p = "done" THEN Return(w, FALSE) ELSE Goto(w, p)
    ELSE /\ Return(w, TRUE)
         /\ UNCHANGED << nicStore, nicCopy, wq >>

\* after CreateVM: addFinalizerToNIC for the NICs of the map, queue.Add
V1AddFinalizers(w) ==
    /\ pc[w] = "v1_addfin"
    /\ IF nicCopy[w] = NoNic
       THEN /\ wq' = QAdd(wq, mach[w].id)
            /\ Return(w, FALSE)
            /\ UNCHANGED << nicStore, nicCopy >>
       ELSE /\ V1NicUpdate(w, addFinalizerToNIC(nicCopy[w]), "v1_requeue")
    /\ UNCHANGED << store, mach, vminfo, vm, dirs, faults >>
    /\ V1Unchanged

V1Requeue(w) ==
    /\ pc[w] = "v1_requeue"
    /\ wq' = QAdd(wq, mach[w].id)
    /\ Return(w, FALSE)
    /\ UNCHANGED << store, mach, vminfo, vm, dirs, faults, nicStore, nicCopy >>
    /\ V1Unchanged

\* reconcileNics: RemoveDevice of the device of a NIC record with a
\* deletion timestamp
V1RemoveDevice(w) ==
    /\ pc[w] = "v1_remove"
    /\ LET s == VmmOf(mach[w].id)
           dev == NicRecordDevice(nicCopy[w].id)
       IN \/ /\ HvRemoveOk(vm[s], dev)
             /\ vm' = [ vm EXCEPT ![s].devs = @ \ { dev } ]
             /\ Goto(w, "v1_remfin")
             /\ UNCHANGED faults
          \/ /\ ~HvRemoveOk(vm[s], dev)
             /\ Return(w, TRUE)
             /\ UNCHANGED << vm, faults >>
          \/ Fault /\ Return(w, TRUE) /\ UNCHANGED vm
    /\ UNCHANGED << store, wq, mach, vminfo, dirs, nicStore, nicCopy >>
    /\ V1Unchanged

\* reconcileNics: removeFinalizerFromNIC after RemoveDevice
V1RemoveFinalizer(w) ==
    /\ pc[w] = "v1_remfin"
    /\ V1NicUpdate(w, removeFinalizerFromNIC(nicCopy[w]), "done")
    /\ UNCHANGED << store, mach, vminfo, vm, dirs, faults >>
    /\ V1Unchanged

\* reconcileNics: addFinalizerToNIC of a NIC that is not a device of the VM
V1AddFinalizer(w) ==
    /\ pc[w] = "v1_addfin2"
    /\ V1NicUpdate(w, addFinalizerToNIC(nicCopy[w]), "v1_addnic")
    /\ UNCHANGED << store, mach, vminfo, vm, dirs, faults >>
    /\ V1Unchanged

\* reconcileNics: Manager.AddNIC, which wants the record Attached and sends
\* the NIC name as the device id
V1AddNIC(w) ==
    /\ pc[w] = "v1_addnic"
    /\ LET s == VmmOf(mach[w].id)
           dev == NicNameDevice(nicCopy[w].id)
       IN IF nicCopy[w].state # "Attached"
          THEN Return(w, TRUE) /\ UNCHANGED << vm, faults >>
          ELSE \/ /\ HvAddOk(vm[s], dev)
                  /\ vm' = [ vm EXCEPT ![s].devs = @ \cup { dev } ]
                  /\ Return(w, FALSE)
                  /\ UNCHANGED faults
               \/ /\ ~HvAddOk(vm[s], dev)
                  /\ Return(w, TRUE)
                  /\ UNCHANGED << vm, faults >>
               \/ Fault /\ Return(w, TRUE) /\ UNCHANGED vm
    /\ UNCHANGED << store, wq, mach, vminfo, dirs, nicStore, nicCopy >>
    /\ V1Unchanged

\* the end of a pass of the machine reconciler: its NIC copy goes with it
V1ProcessDone(w) ==
    /\ pc[w] = "done"
    /\ delayed' = AfterPass(delayed, wid[w], err[w], wq)
    /\ wq' = QDone(wq, wid[w])
    /\ pc' = [ pc EXCEPT ![w] = "idle" ]
    /\ wid' = [ wid EXCEPT ![w] = NoId ]
    /\ mach' = [ mach EXCEPT ![w] = NoMachine ]
    /\ err' = [ err EXCEPT ![w] = FALSE ]
    /\ vminfo' = [ vminfo EXCEPT ![w] = NoVm ]
    /\ nicCopy' = [ nicCopy EXCEPT ![w] = NoNic ]
    /\ UNCHANGED << store, created, calls, free, vm, dirs, volDirs, nicDirs, qmpNodes,
                    qmpExports, faults, held, restarts, reply, imageCache, nicStore, scenario >>

MachineReconcilerStep(w) ==
    \/ ProcessGet(w)
    \/ V1Fetch(w)
    \/ V1GetNic(w)
    \/ V1DeleteNic(w)
    \/ V1UpdateStatus(w)
    \/ V1GetVM(w)
    \/ V1CreateVM(w)
    \/ V1AddFinalizers(w)
    \/ V1Requeue(w)
    \/ V1RemoveDevice(w)
    \/ V1RemoveFinalizer(w)
    \/ V1AddFinalizer(w)
    \/ V1AddNIC(w)
    \/ V1ProcessDone(w)

NextNicRecords ==
    \/ \E id \in Machines, req \in CreateRequests \cup { NicRequest } :
          CreateMachine(id, req, ValidShape)
    \/ \E id \in Machines : AttachNetworkInterface(id, Nic)
    \/ \E id \in Machines : DetachNetworkInterface(id, Nic.name)
    \/ \E id \in Machines : DelayedAdd(id)
    \/ MachineReconcilerStep(MachineWorker)
    \/ NicReconcilerStep(NicWorker)

SpecNicRecords == InitNicRecords /\ [][NextNicRecords]_vars

(***************************************************************************)
(* C38: the NIC reconciler invokes the NIC plugin's Delete and drops       *)
(* NetworkInterfaceFinalizer for a NIC record with a deletion timestamp    *)
(* only when the record carries no finalizer other than its own: while     *)
(* MachineFinalizer is on the record, the NIC reconciler neither calls the *)
(* plugin's Delete nor removes its finalizer; and it applies the plugin    *)
(* only for a record that has NetworkInterfaceFinalizer stored.            *)
(***************************************************************************)
NicPluginDeleteInvoked ==
    /\ pc[NicWorker] = "n_delete"
    /\ pc'[NicWorker] # "n_delete"
    /\ NetworkInterfaceFinalizer \in nicCopy[NicWorker].fin

NicFinalizerDropped ==
    /\ pc[NicWorker] = "n_unfin"
    /\ pc'[NicWorker] # "n_unfin"
    /\ nicStore' # nicStore

NicPluginApplyInvoked ==
    /\ pc[NicWorker] = "n_apply"
    /\ pc'[NicWorker] # "n_apply"

C38_NicDeleteOnlyUnreferenced ==
    [][/\ (NicPluginDeleteInvoked \/ NicFinalizerDropped) =>
             /\ NicStored(nicCopy[NicWorker].id)
             /\ nicStore[nicCopy[NicWorker].id].del
             /\ nicStore[nicCopy[NicWorker].id].fin \subseteq { NetworkInterfaceFinalizer }
       /\ NicPluginApplyInvoked =>
             /\ NicStored(nicCopy[NicWorker].id)
             /\ NetworkInterfaceFinalizer \in nicStore[nicCopy[NicWorker].id].fin]_vars

(***************************************************************************)
(* C39: every socket path in the free set is a key of the manager's        *)
(* instances map: FreeApiSocket, as machine deletion calls it with the     *)
(* path of the record, never puts a path into free for which Ping, GetVM   *)
(* and CreateVM would return ErrNotFound.                                  *)
(***************************************************************************)
C39_FreeAreInstances ==
    /\ free \subseteq instances
    /\ \A s \in free : GetVMResult(s) # "ErrNotFound"

\* a deletion has handed the socket of its record back, and another one
\* has passed FreeApiSocket for a record that never had a socket
C39_Witness ==
    \E w \in Workers :
       /\ pc[w] = "del_update"
       /\ mach[w].sock = NoSock
       /\ restarts > 0
       /\ free # {}

(***************************************************************************)
(* The provider with the apinet NIC plugin: machines created and then      *)
(* left to the reconciler, every worker goroutine and every backoff timer  *)
(* takes its steps.                                                        *)
(***************************************************************************)
InitApinet == InitOf(ApinetScenario)

SpecApinet == InitApinet /\ [][NextNics]_vars /\ Fairness

\* the NIC statuses of the record are the ones a successful Apply reported
NicsApplied(m) ==
    /\ m.nics # << >>
    /\ Len(m.nstat) = Len(m.nics)
    /\ \A i \in 1..Len(m.nstat) : m.nstat[i] = AppliedNic(m.id, m.nics[i])

\* the VM of the machine has the NIC among its devices
VmHasNic(id, n) ==
    \E s \in Sockets :
       /\ vm[s].created
       /\ vm[s].uuid = id
       /\ getNicID(n.name) \in vm[s].devs

(***************************************************************************)
(* C40: a pass that reaches CreateVM with the NIC statuses a successful    *)
(* Apply of the apinet plugin reported is not refused for the state of a   *)
(* NIC, and a stored machine with such statuses eventually has a VM with   *)
(* the NIC in its device list.                                             *)
(***************************************************************************)
C40_AppliedNicReachesVm ==
    /\ [](\A w \in Workers :
             (pc[w] = "createvm" /\ NicsApplied(mach[w]))
                => CreateVMResult(mach[w]) # "NicNotAttached")
    /\ \A id \in Machines :
          (Stored(id) /\ NicsApplied(store[id])) ~> VmHasNic(id, Nic)

====
